---- MODULE Spec2Model ----
(***************************************************************************)
(* Model of the DICOM pipeline lambdas.                                    *)
(*                                                                         *)
(*   SpecHier - dicomfilehandler/series_extract.py: one call of            *)
(*              process_dicom_files or of extract_patient_data_from_dicom  *)
(*   SpecRaw  - rawfile/lambda_function.py: one call of lambda_handler     *)
(*                                                                         *)
(* Python values are tagged records [t, v]; a Python str is a sequence of  *)
(* one-character strings, so that lower(), concatenation, split and        *)
(* slicing are computed and not assumed.  A pydicom Dataset is a function  *)
(* from the keywords it holds to their values; a keyword it does not hold  *)
(* is not in its domain.                                                   *)
(***************************************************************************)
EXTENDS Integers, Sequences, FiniteSets, TLC

VARIABLES
    files,          \* the files os.walk yields, in walk order (input)
    user_id,        \* argument user_id
    upload_id,      \* argument upload_id
    idx,            \* position of the walk: the next file is files[idx]
    clock,          \* datetime.utcnow(), one tick per loop iteration
    uuid_calls,     \* number of uuid.uuid4() calls made so far
    hierarchy,      \* process_dicom_files: the list being built
    patients,       \* extract_patient_data_from_dicom: the list being built
    seen_patients,  \* extract_patient_data_from_dicom: set of seen ids
    fn,             \* the function called: "series" or "patients"
    wpc,            \* walk position: "walk", "returned", "raised"
    last,           \* what the last loop iteration did with its file
    \* rawfile/lambda_function.py lambda_handler
    event,          \* event['Records']: the SNS messages, in order
    bucket,         \* the objects the listing of the folder listed last
                    \* has returned so far, in listing order
    listed,         \* how many objects of the bucket the listings of the
                    \* invocation have returned so far
    rec,            \* the record the loop of line 165 is at
    rpc,            \* position of the handler within the record
    contents,       \* response['Contents'] of the record
    fidx,           \* the file the loop of line 219 is at
    combined_pixel_data,
    combined_metadata,
    tmp,            \* the local files that exist under /tmp
    s3,             \* the objects uploaded, in order
    db,             \* the record-store writes made, in order
    sns,            \* the publish calls made, in order, each with whether
                    \* the message was delivered or the call raised
    result,         \* what the handler returned, None before it returns
    rlast,          \* what the last step did
    \* the other stage handlers (they share event, rpc, tmp, s3, db, sns,
    \* result and rlast with the rawfile handler)
    SNS_TOPIC_ARN,  \* dicomfilehandler: os.getenv('PENDING_TOPIC_ARN')
    output_files,   \* conversion-process: the keys uploaded so far
    json_data,      \* metadata_generator: the settings JSON that was read
    dicom_data,     \* metadata_generator: first result of parse_dicom_data
    metadata,       \* metadata_generator: second result of parse_dicom_data
    image_id,       \* metadata_generator: result of insert_dicom_image
    metadata_records, \* insert_dicom_metadata: the prepared records
    batch_start,    \* insert_dicom_metadata: i of the loop of line 211
    \* rawfile/lambda_function.py clean_data
    data_in,        \* argument data
    cleaned         \* what clean_data returned

walkVars == <<files, user_id, upload_id, idx, clock, uuid_calls, hierarchy,
              patients, seen_patients, fn, wpc, last>>

rawVars == <<event, bucket, listed, rec, rpc, contents, fidx, combined_pixel_data,
             combined_metadata, tmp, s3, db, sns, result, rlast>>

stageVars == <<SNS_TOPIC_ARN, output_files, json_data, dicom_data, metadata,
               image_id, metadata_records, batch_start, data_in, cleaned>>

----------------------------------------------------------------------------
(* Bounds *)

MaxFiles == 2        \* files of a hierarchy walk
MaxContents == 3     \* objects the S3 listings of an invocation return
MaxDepth == 2        \* containers nested in an argument of clean_data

----------------------------------------------------------------------------
(* Python values *)

PyStr(s)   == [t |-> "str",   v |-> s]
PyInt(n)   == [t |-> "int",   v |-> n]
PyFloat(n) == [t |-> "float", v |-> n]     \* n is the value in tenths
PyMulti(l) == [t |-> "multi", v |-> l]     \* pydicom.multival.MultiValue
PyList(l)  == [t |-> "list",  v |-> l]
PyNone     == [t |-> "none",  v |-> <<>>]

\* bool(x)
Truthy(x) ==
    CASE x.t = "none"  -> FALSE
      [] x.t = "str"   -> x.v # <<>>
      [] x.t = "int"   -> x.v # 0
      [] x.t = "float" -> x.v # 0
      [] x.t = "multi" -> x.v # <<>>
      [] x.t = "list"  -> x.v # <<>>
      [] x.t = "dict"  -> x.v # <<>>

UpperChars == <<"A","B","C","D","E","F","G","H","I","J","K","L","M",
                "N","O","P","Q","R","S","T","U","V","W","X","Y","Z">>
LowerChars == <<"a","b","c","d","e","f","g","h","i","j","k","l","m",
                "n","o","p","q","r","s","t","u","v","w","x","y","z">>

LowerChar(c) ==
    IF \E i \in DOMAIN UpperChars : UpperChars[i] = c
    THEN LowerChars[CHOOSE i \in DOMAIN UpperChars : UpperChars[i] = c]
    ELSE c

\* str.lower() on the characters of a str
Lower(s) == [i \in DOMAIN s |-> LowerChar(s[i])]

\* x has a .lower() method (a str, or pydicom's UID/PersonName str subclass)
HasLower(x) == x.t = "str"

s_None  == <<"N","o","n","e">>
s_none  == <<"n","o","n","e">>
s_under == <<"_">>

\* int(x): defined on numbers, raises on None and on a MultiValue
CanInt(x) == x.t \in {"int", "float"}
IntOf(x) ==
    IF x.t = "int" THEN PyInt(x.v)
    ELSE PyInt(IF x.v >= 0 THEN x.v \div 10 ELSE -((-x.v) \div 10))

\* float(x): defined on numbers, raises on None and on a MultiValue
CanFloat(x) == x.t \in {"int", "float"}
FloatOf(x) ==
    IF x.t = "float" THEN PyFloat(x.v) ELSE PyFloat(x.v * 10)

\* Dataset.get(keyword, default)
DsGet(ds, tag, default) == IF tag \in DOMAIN ds THEN ds[tag] ELSE default

\* safe_json_serialize
safe_json_serialize(value) ==
    IF value.t = "multi" THEN PyList(value.v) ELSE value

DigitChars == <<"0","1","2","3","4","5","6","7","8","9">>

\* the decimal digits of a natural number, as str() renders it
RECURSIVE Digits(_)
Digits(n) ==
    IF n < 10 THEN <<DigitChars[n + 1]>>
    ELSE Digits(n \div 10) \o <<DigitChars[(n % 10) + 1]>>

\* s[:n]
Take(s, n) == SubSeq(s, 1, IF Len(s) < n THEN Len(s) ELSE n)

\* str.split(sep) for a one-character separator: the list of the pieces
RECURSIVE Split(_, _)
Split(s, sep) ==
    IF \A i \in DOMAIN s : s[i] # sep THEN <<s>>
    ELSE LET k == CHOOSE i \in DOMAIN s :
                      s[i] = sep /\ \A j \in 1..(i - 1) : s[j] # sep
         IN  <<SubSeq(s, 1, k - 1)>> \o Split(SubSeq(s, k + 1, Len(s)), sep)

\* str(x) of a str (pydicom's PersonName and UID render as their text)
StrOf(x) ==
    CASE x.t = "str"  -> x.v
      [] x.t = "none" -> <<"N","o","n","e">>
      [] x.t = "int"  -> Digits(x.v)

\* uuid.uuid4().hex of the n-th call: draws are pairwise distinct, also in
\* their first eight characters
UuidHex(n) == <<"a">> \o Digits(n)

----------------------------------------------------------------------------
(* Inputs of the hierarchy walks *)

s_study  == <<"1",".","2">>
s_NoNe   == <<"N","O","n","e">>
s_se1    == <<"1",".","2",".","1">>
s_se2    == <<"1",".","2",".","2">>
s_CT     == <<"C","T">>
s_up1    == <<"u","p","1">>
s_user1  == <<"u","s","r">>

NoAttr == <<>>          \* a dataset part holding no keyword

StudyChoices ==
    { NoAttr,
      "StudyInstanceUID" :> PyStr(<<>>),
      "StudyInstanceUID" :> PyStr(s_NoNe),
      "StudyInstanceUID" :> PyStr(s_study) }

SeriesChoices ==
    { NoAttr,
      "SeriesInstanceUID" :> PyStr(s_se1),
      "SeriesInstanceUID" :> PyStr(s_se2) }

\* SeriesNumber (IS), SliceThickness (DS), ImagesInAcquisition (IS): absent,
\* numbers, zero, an empty element (None), or a MultiValue, on which
\* int()/float() raise TypeError
NumberChoices ==
    { NoAttr,
      ("SeriesNumber" :> PyInt(7)) @@ ("SliceThickness" :> PyFloat(25))
          @@ ("ImagesInAcquisition" :> PyInt(30)),
      ("SeriesNumber" :> PyInt(0)) @@ ("SliceThickness" :> PyInt(3))
          @@ ("ImagesInAcquisition" :> PyNone),
      ("SeriesNumber" :> PyMulti(<<PyInt(1), PyInt(2)>>))
          @@ ("SliceThickness" :> PyFloat(25)),
      ("SeriesNumber" :> PyInt(7))
          @@ ("SliceThickness" :> PyMulti(<<PyFloat(25), PyFloat(25)>>)) }

DescriptiveAttrs ==
    ("Modality" :> PyStr(s_CT))
      @@ ("PixelSpacing" :> PyMulti(<<PyFloat(5), PyFloat(5)>>))

SeriesDatasets ==
    { a @@ b @@ c @@ DescriptiveAttrs :
        a \in StudyChoices, b \in SeriesChoices, c \in NumberChoices }

\* a file of the walk: dcmread either raises or yields a dataset
Unreadable == [readable |-> FALSE, ds |-> NoAttr]
FileOf(d)  == [readable |-> TRUE, ds |-> d]

SeriesFiles == {Unreadable} \cup {FileOf(d) : d \in SeriesDatasets}

s_p1     == <<"P","1">>
s_doe    == <<"D","O","E","^","J","O","H","N">>
s_solo   == <<"^","S","O","L","O">>
s_birth  == <<"1","9","7","0","0","1","0","1">>
s_M      == <<"M">>
s_F      == <<"F">>
s_O      == <<"O">>
s_A      == <<"A">>
s_X      == <<"X">>
s_ANON   == <<"A","N","O","N","_">>
s_ANONYMOUS == <<"A","N","O","N","Y","M","O","U","S">>
s_PATIENT   == <<"P","A","T","I","E","N","T">>
s_ANONPAT   == s_ANONYMOUS \o <<"^">> \o s_PATIENT

PatientSeriesChoices ==
    { NoAttr,
      "SeriesInstanceUID" :> PyStr(<<>>),
      "SeriesInstanceUID" :> PyStr(s_NoNe),
      "SeriesInstanceUID" :> PyStr(s_se1),
      "SeriesInstanceUID" :> PyStr(s_se2) }

PatientChoices ==
    { NoAttr,
      ("PatientID" :> PyStr(s_p1)) @@ ("PatientName" :> PyStr(s_doe))
          @@ ("PatientBirthDate" :> PyStr(s_birth)),
      ("PatientID" :> PyStr(s_NoNe)) @@ ("PatientName" :> PyStr(s_solo))
          @@ ("PatientBirthDate" :> PyStr(<<>>)) }

SexChoices ==
    { NoAttr,
      "PatientSex" :> PyStr(s_M),
      "PatientSex" :> PyStr(s_O),
      "PatientSex" :> PyStr(s_X) }

PatientDatasets ==
    { a @@ b @@ c :
        a \in PatientSeriesChoices, b \in PatientChoices, c \in SexChoices }

PatientFiles == {Unreadable} \cup {FileOf(d) : d \in PatientDatasets}

FileSeqs(S) == UNION {[1..n -> S] : n \in 0..MaxFiles}

----------------------------------------------------------------------------
(* process_dicom_files *)

\* faulty variant: the comparison with "none" is case-sensitive
InvalidStudy_CaseSensitive(study_id) ==
    ~Truthy(study_id) \/ (HasLower(study_id) /\ study_id.v = s_none)

\* line 44: if not study_id or study_id.lower() == "none"
InvalidStudy(study_id) ==
    ~Truthy(study_id) \/ (HasLower(study_id) /\ Lower(study_id.v) = s_none)

\* line 44 raises AttributeError: a truthy value without .lower()
StudyCheckRaises(study_id) == Truthy(study_id) /\ ~HasLower(study_id)

\* faulty variant: the dedup looks at the study instead of the series
ExistingEntry_ByStudy(h, series_id) ==
    {i \in DOMAIN h : h[i].study_id = series_id}

\* line 48: the indexes of the entries whose series_id equals series_id
ExistingEntry(h, series_id) == {i \in DOMAIN h : h[i].series_id = series_id}

\* lines 57-59: int(x) if x else None, float(x) if x else None
IntOrNone(x)   == IF Truthy(x) THEN IntOf(x) ELSE PyNone
FloatOrNone(x) == IF Truthy(x) THEN FloatOf(x) ELSE PyNone

\* lines 50-69 raise: the + of line 51 on a non-str, or int()/float() of
\* lines 57-59 on a truthy value that is no number
SeriesRecordRaises(ds, upl) ==
    \/ DsGet(ds, "SeriesInstanceUID", PyStr(s_None)).t # "str"
    \/ upl.t # "str"
    \/ LET x == DsGet(ds, "SeriesNumber", PyInt(0))
       IN  Truthy(x) /\ ~CanInt(x)
    \/ LET x == DsGet(ds, "SliceThickness", PyFloat(0))
       IN  Truthy(x) /\ ~CanFloat(x)
    \/ LET x == DsGet(ds, "ImagesInAcquisition", PyInt(0))
       IN  Truthy(x) /\ ~CanInt(x)

\* lines 26-43 and 50-69: the dict appended for a dataset
SeriesRecord(ds, usr, upl, now) ==
    LET series_id == DsGet(ds, "SeriesInstanceUID", PyStr(s_None))
    IN  [ series_upload_id |-> PyStr(series_id.v \o s_under \o upl.v),
          series_id        |-> series_id,
          study_id         |-> DsGet(ds, "StudyInstanceUID", PyStr(s_None)),
          dicom_series_id  |-> DsGet(ds, "SeriesInstanceUID", PyStr(s_None)),
          modality         |-> DsGet(ds, "Modality", PyStr(s_None)),
          series_description |->
              DsGet(ds, "SeriesDescription", PyStr(s_None)),
          series_number    |-> IntOrNone(DsGet(ds, "SeriesNumber", PyInt(0))),
          slice_thickness  |->
              FloatOrNone(DsGet(ds, "SliceThickness", PyFloat(0))),
          number_of_slices |->
              IntOrNone(DsGet(ds, "ImagesInAcquisition", PyInt(0))),
          image_orientation |-> safe_json_serialize(
              DsGet(ds, "ImageOrientationPatient", PyStr(s_None))),
          pixel_spacing    |-> safe_json_serialize(
              DsGet(ds, "PixelSpacing", PyStr(s_None))),
          manufacturer     |-> DsGet(ds, "Manufacturer", PyStr(s_None)),
          manufacturer_model_name |->
              DsGet(ds, "ManufacturerModelName", PyStr(s_None)),
          created_at       |-> now,
          user_id          |-> usr,
          file_id          |-> upl,
          patient_name     |-> DsGet(ds, "PatientName", PyStr(s_None)) ]

\* faulty variant: the except clause re-raises
SeriesOnError_Reraise == "raised"

\* lines 72-74: what the except clause of the loop body does with the walk
SeriesOnError == "walk"

\* one iteration of the loop of line 20 over files[idx]; the iteration ends
\* in the except clause when dcmread raises (line 23), on the undefined name
\* patient_id of line 45 (reached exactly for an invalid study_id), or when
\* building the dict raises
SeriesStep(outcome, h) ==
    /\ fn = "series" /\ wpc = "walk" /\ idx <= Len(files)
    /\ idx' = idx + 1
    /\ clock' = clock + 1
    /\ last' = outcome
    /\ hierarchy' = h
    /\ wpc' = IF outcome \in {"unreadable", "invalid_study", "record_error"}
              THEN SeriesOnError ELSE "walk"
    /\ UNCHANGED <<files, user_id, upload_id, uuid_calls, patients,
                   seen_patients, fn>>
    /\ UNCHANGED <<rawVars, stageVars>>

SeriesUnreadable ==
    /\ idx <= Len(files) /\ ~files[idx].readable
    /\ SeriesStep("unreadable", hierarchy)

SeriesInvalidStudy ==
    /\ idx <= Len(files) /\ files[idx].readable
    /\ LET study_id == DsGet(files[idx].ds, "StudyInstanceUID", PyStr(s_None))
       IN  InvalidStudy(study_id) \/ StudyCheckRaises(study_id)
    /\ SeriesStep("invalid_study", hierarchy)

SeriesDuplicate ==
    /\ idx <= Len(files) /\ files[idx].readable
    /\ LET ds == files[idx].ds
           study_id == DsGet(ds, "StudyInstanceUID", PyStr(s_None))
       IN  /\ ~InvalidStudy(study_id) /\ ~StudyCheckRaises(study_id)
           /\ ExistingEntry(hierarchy,
                  DsGet(ds, "SeriesInstanceUID", PyStr(s_None))) # {}
    /\ SeriesStep("duplicate", hierarchy)

SeriesRecordError ==
    /\ idx <= Len(files) /\ files[idx].readable
    /\ LET ds == files[idx].ds
           study_id == DsGet(ds, "StudyInstanceUID", PyStr(s_None))
       IN  /\ ~InvalidStudy(study_id) /\ ~StudyCheckRaises(study_id)
           /\ ExistingEntry(hierarchy,
                  DsGet(ds, "SeriesInstanceUID", PyStr(s_None))) = {}
           /\ SeriesRecordRaises(ds, upload_id)
    /\ SeriesStep("record_error", hierarchy)

SeriesAppend ==
    /\ idx <= Len(files) /\ files[idx].readable
    /\ LET ds == files[idx].ds
           study_id == DsGet(ds, "StudyInstanceUID", PyStr(s_None))
       IN  /\ ~InvalidStudy(study_id) /\ ~StudyCheckRaises(study_id)
           /\ ExistingEntry(hierarchy,
                  DsGet(ds, "SeriesInstanceUID", PyStr(s_None))) = {}
           /\ ~SeriesRecordRaises(ds, upload_id)
           /\ SeriesStep("appended",
                  Append(hierarchy,
                         SeriesRecord(ds, user_id, upload_id, PyInt(clock))))

\* line 76: return hierarchy
SeriesReturn ==
    /\ fn = "series" /\ wpc = "walk" /\ idx > Len(files)
    /\ wpc' = "returned"
    /\ last' = "return"
    /\ UNCHANGED <<files, user_id, upload_id, idx, clock, uuid_calls,
                   hierarchy, patients, seen_patients, fn>>
    /\ UNCHANGED <<rawVars, stageVars>>

\* clean_data is not called
CleanIdle == data_in = PyNone /\ cleaned = PyNone

\* the locals of the other stage handlers before they are bound
StageIdle ==
    /\ SNS_TOPIC_ARN = PyNone /\ output_files = <<>>
    /\ json_data = PyNone /\ dicom_data = PyNone /\ metadata = PyNone
    /\ image_id = PyNone /\ metadata_records = <<>> /\ batch_start = 0
    /\ CleanIdle

\* the rawfile handler is not running
RawIdle ==
    /\ event = <<>> /\ rec = 0 /\ rpc = "idle" /\ contents = <<>> /\ fidx = 0
    /\ bucket = <<>> /\ listed = 0
    /\ combined_pixel_data = PyNone /\ combined_metadata = <<>>
    /\ tmp = {} /\ s3 = <<>> /\ db = <<>> /\ sns = <<>>
    /\ result = PyNone /\ rlast = "idle"
    /\ StageIdle

InitSeries ==
    /\ RawIdle
    /\ fn = "series"
    /\ files \in FileSeqs(SeriesFiles)
    /\ user_id = PyStr(s_user1)
    /\ upload_id = PyStr(s_up1)
    /\ idx = 1
    /\ clock = 0
    /\ uuid_calls = 0
    /\ hierarchy = <<>>
    /\ patients = <<>>
    /\ seen_patients = {}
    /\ wpc = "walk"
    /\ last = "call"

NextSeries ==
    \/ SeriesUnreadable
    \/ SeriesInvalidStudy
    \/ SeriesDuplicate
    \/ SeriesRecordError
    \/ SeriesAppend
    \/ SeriesReturn

----------------------------------------------------------------------------
(* extract_patient_data_from_dicom *)

\* faulty variant: only the missing series id is rejected
UnusableSeries_NoSentinel(series_id) == ~Truthy(series_id)

\* line 95: if not series_id or series_id.lower() == "none"
UnusableSeries(series_id) ==
    ~Truthy(series_id) \/ (HasLower(series_id) /\ Lower(series_id.v) = s_none)

\* line 95 raises AttributeError: a truthy value without .lower()
SeriesCheckRaises(series_id) == Truthy(series_id) /\ ~HasLower(series_id)

\* lines 109-111: only the allowed values of sex are kept
allowed_sex_values == {PyStr(s_M), PyStr(s_F), PyStr(s_O), PyStr(s_A)}

\* faulty variant: the value of PatientSex is kept as it is
CoerceSex_Keep(sex) == sex

CoerceSex(sex) == IF sex \notin allowed_sex_values THEN PyStr(s_A) ELSE sex

\* line 102: the PatientID, or the ANON_ tag made from uuid4 call number n
DicomPatientId(ds, n) ==
    DsGet(ds, "PatientID", PyStr(s_ANON \o Take(UuidHex(n), 8)))

\* lines 103-104: "x or default" on the first and the last piece of the name
FirstName(ds) ==
    LET parts == Split(StrOf(DsGet(ds, "PatientName", PyStr(s_ANONPAT))), "^")
    IN  IF parts[1] # <<>> THEN PyStr(parts[1]) ELSE PyStr(s_ANONYMOUS)
LastName(ds) ==
    LET parts == Split(StrOf(DsGet(ds, "PatientName", PyStr(s_ANONPAT))), "^")
    IN  IF parts[Len(parts)] # <<>> THEN PyStr(parts[Len(parts)])
        ELSE PyStr(s_PATIENT)

\* faulty variant: the seen set is never consulted
SeenPatient_Never(seen, dicom_patient_id) == FALSE

\* line 119: if dicom_patient_id in seen_patients
SeenPatient(seen, dicom_patient_id) == dicom_patient_id \in seen

\* lines 99-117 and 125-137: the dict appended for a dataset; n is the
\* number of uuid4 calls made before this iteration
PatientRecord(ds, usr, upl, now, n) ==
    LET series_id  == DsGet(ds, "SeriesInstanceUID", PyNone)
        birth_date == DsGet(ds, "PatientBirthDate", PyNone)
    IN  [ patient_id       |-> PyStr(UuidHex(n + 2)),
          dicom_patient_id |-> DicomPatientId(ds, n + 1),
          first_name       |-> FirstName(ds),
          last_name        |-> LastName(ds),
          birth_date       |-> IF Truthy(birth_date)
                                  /\ birth_date # PyStr(<<>>)
                               THEN birth_date ELSE PyNone,
          sex              |-> CoerceSex(DsGet(ds, "PatientSex", PyStr(s_A))),
          contact_info     |-> [email |-> PyNone, phone |-> PyNone],
          patient_user_id  |-> usr,
          created_at       |-> now,
          updated_at       |-> now,
          series_upload_id |->
              PyStr(StrOf(series_id) \o s_under \o StrOf(upl)) ]

\* lines 139-141: what the except clause of the loop body does with the walk
PatientsOnError == "walk"

\* one iteration of the loop of line 88 over files[idx]; calls is the number
\* of uuid4 calls the iteration makes (lines 102 and 114)
PatientsStep(outcome, calls, p, seen) ==
    /\ fn = "patients" /\ wpc = "walk" /\ idx <= Len(files)
    /\ idx' = idx + 1
    /\ clock' = clock + 1
    /\ uuid_calls' = uuid_calls + calls
    /\ last' = outcome
    /\ patients' = p
    /\ seen_patients' = seen
    /\ wpc' = IF outcome = "unreadable" THEN PatientsOnError ELSE "walk"
    /\ UNCHANGED <<files, user_id, upload_id, hierarchy, fn>>
    /\ UNCHANGED <<rawVars, stageVars>>

PatientsUnreadable ==
    /\ idx <= Len(files) /\ ~files[idx].readable
    /\ PatientsStep("unreadable", 0, patients, seen_patients)

PatientsNoSeries ==
    /\ idx <= Len(files) /\ files[idx].readable
    /\ LET series_id == DsGet(files[idx].ds, "SeriesInstanceUID", PyNone)
       IN  UnusableSeries(series_id) \/ SeriesCheckRaises(series_id)
    /\ PatientsStep("no_series", 0, patients, seen_patients)

PatientsDuplicate ==
    /\ idx <= Len(files) /\ files[idx].readable
    /\ LET ds == files[idx].ds
           series_id == DsGet(ds, "SeriesInstanceUID", PyNone)
       IN  /\ ~UnusableSeries(series_id) /\ ~SeriesCheckRaises(series_id)
           /\ SeenPatient(seen_patients, DicomPatientId(ds, uuid_calls + 1))
    /\ PatientsStep("duplicate", 2, patients, seen_patients)

PatientsAppend ==
    /\ idx <= Len(files) /\ files[idx].readable
    /\ LET ds == files[idx].ds
           series_id == DsGet(ds, "SeriesInstanceUID", PyNone)
       IN  /\ ~UnusableSeries(series_id) /\ ~SeriesCheckRaises(series_id)
           /\ ~SeenPatient(seen_patients, DicomPatientId(ds, uuid_calls + 1))
           /\ PatientsStep("appended", 2,
                  Append(patients,
                         PatientRecord(ds, user_id, upload_id, PyInt(clock),
                                       uuid_calls)),
                  seen_patients \cup {DicomPatientId(ds, uuid_calls + 1)})

\* line 143: return patients
PatientsReturn ==
    /\ fn = "patients" /\ wpc = "walk" /\ idx > Len(files)
    /\ wpc' = "returned"
    /\ last' = "return"
    /\ UNCHANGED <<files, user_id, upload_id, idx, clock, uuid_calls,
                   hierarchy, patients, seen_patients, fn>>
    /\ UNCHANGED <<rawVars, stageVars>>

InitPatients ==
    /\ RawIdle
    /\ fn = "patients"
    /\ files \in FileSeqs(PatientFiles)
    /\ user_id = PyStr(s_user1)
    /\ upload_id = PyStr(s_up1)
    /\ idx = 1
    /\ clock = 0
    /\ uuid_calls = 0
    /\ hierarchy = <<>>
    /\ patients = <<>>
    /\ seen_patients = {}
    /\ wpc = "walk"
    /\ last = "call"

NextPatients ==
    \/ PatientsUnreadable
    \/ PatientsNoSeries
    \/ PatientsDuplicate
    \/ PatientsAppend
    \/ PatientsReturn

vars == <<walkVars, rawVars, stageVars>>

\* a call of either function of the Hierarchy Aggregator on any file sequence
InitHier == InitSeries \/ InitPatients
NextHier == NextSeries \/ NextPatients
SpecHier == InitHier /\ [][NextHier]_vars

----------------------------------------------------------------------------
(* Properties of the Hierarchy Aggregator *)

\* the files the walk has gone through
Walked == 1..(idx - 1)

\* a value that is missing, empty or "none" in any letter case
NoneLike(x) == x.t # "str" \/ x.v = <<>> \/ Lower(x.v) = s_none

SeriesIdOf(f) == DsGet(f.ds, "SeriesInstanceUID", PyStr(s_None))
StudyIdOf(f)  == DsGet(f.ds, "StudyInstanceUID", PyStr(s_None))

\* the numeric fields of a record, as int()/float() give them, null for a
\* falsy source value
NumbersCoercible(f) ==
    /\ \A tag \in {"SeriesNumber", "ImagesInAcquisition"} :
          DsGet(f.ds, tag, PyInt(0)).t \in {"int", "float", "none"}
    /\ DsGet(f.ds, "SliceThickness", PyFloat(0)).t \in {"int", "float", "none"}

\* the record r has the attributes of the file f
SeriesFieldsFrom(r, f) ==
    /\ r.series_id = SeriesIdOf(f)
    /\ r.study_id = StudyIdOf(f)
    /\ r.modality = DsGet(f.ds, "Modality", PyStr(s_None))
    /\ r.series_description = DsGet(f.ds, "SeriesDescription", PyStr(s_None))
    /\ r.manufacturer = DsGet(f.ds, "Manufacturer", PyStr(s_None))
    /\ r.patient_name = DsGet(f.ds, "PatientName", PyStr(s_None))
    /\ NumbersCoercible(f)
    /\ r.series_number = IntOrNone(DsGet(f.ds, "SeriesNumber", PyInt(0)))
    /\ r.slice_thickness =
           FloatOrNone(DsGet(f.ds, "SliceThickness", PyFloat(0)))
    /\ r.number_of_slices =
           IntOrNone(DsGet(f.ds, "ImagesInAcquisition", PyInt(0)))

\* the walked files that carry the series id sid
Carriers(sid) == {j \in Walked : files[j].readable /\ SeriesIdOf(files[j]) = sid}

\* those of them the walk does not drop: a usable study id, and a record
\* that can be built
Kept(sid) ==
    {j \in Carriers(sid) : ~NoneLike(StudyIdOf(files[j]))
                           /\ NumbersCoercible(files[j])}

First(S) == CHOOSE j \in S : \A k \in S : j <= k

OneRecordPerSeries ==
    \A i, k \in DOMAIN hierarchy :
        hierarchy[i].series_id = hierarchy[k].series_id => i = k

\* C1 as stated: at most one SeriesRecord per series_id, populated from the
\* first walked file that carries that series_id (stated for the records
\* whose series_id is a real identifier, not the sentinel)
C1_FirstCarrierWins ==
    fn = "series" =>
        /\ OneRecordPerSeries
        /\ \A i \in DOMAIN hierarchy :
              ~NoneLike(hierarchy[i].series_id) =>
                  LET c == Carriers(hierarchy[i].series_id)
                  IN  /\ c # {}
                      /\ SeriesFieldsFrom(hierarchy[i], files[First(c)])

\* C1 (amended): at most one SeriesRecord per series_id, and its fields are
\* those of the first walked file carrying that series_id among the files
\* the walk does not drop; a later file with the same series_id neither
\* changes nor adds a record
C1_FirstKeptWins ==
    fn = "series" =>
        /\ OneRecordPerSeries
        /\ \A i \in DOMAIN hierarchy :
              LET c == Kept(hierarchy[i].series_id)
              IN  c # {} /\ SeriesFieldsFrom(hierarchy[i], files[First(c)])

\* two walked files carry the same series id with different attributes, the
\* second was skipped as a duplicate and the walk returned one record
C1_Witness ==
    /\ fn = "series" /\ wpc = "returned" /\ idx = 3
    /\ Len(hierarchy) = 1
    /\ Kept(hierarchy[1].series_id) = {1, 2}
    /\ files[1] # files[2]

----------------------------------------------------------------------------

PatientSeriesOf(f) == DsGet(f.ds, "SeriesInstanceUID", PyNone)

\* the walked files that hold the source patient id pid and belong to a
\* series, so that a record is built from them
PatientCarriers(pid) ==
    {j \in Walked : /\ files[j].readable
                    /\ ~NoneLike(PatientSeriesOf(files[j]))
                    /\ "PatientID" \in DOMAIN files[j].ds
                    /\ files[j].ds["PatientID"] = pid}

SourcePatientIds ==
    {files[j].ds["PatientID"] :
        j \in {k \in Walked : "PatientID" \in DOMAIN files[k].ds}}

\* the record r has the patient attributes of the file f
PatientFieldsFrom(r, f) ==
    /\ r.dicom_patient_id = f.ds["PatientID"]
    /\ r.first_name = FirstName(f.ds)
    /\ r.last_name = LastName(f.ds)
    /\ r.series_upload_id =
           PyStr(PatientSeriesOf(f).v \o s_under \o upload_id.v)

----------------------------------------------------------------------------

\* the file files[idx] is about to be walked by function f
AtFile(f) == fn = f /\ wpc = "walk" /\ idx <= Len(files)

\* C3: no SeriesRecord has a study_id that is absent, empty or "none" in any
\* letter case; a file with such a StudyInstanceUID is dropped without a
\* record, and the walk goes on with the next file
C3_NoSentinelStudy ==
    /\ [](fn = "series" =>
            \A i \in DOMAIN hierarchy : ~NoneLike(hierarchy[i].study_id))
    /\ [][(AtFile("series") /\ files[idx].readable
              /\ NoneLike(StudyIdOf(files[idx])))
            => (hierarchy' = hierarchy /\ idx' = idx + 1 /\ wpc' = "walk")]_vars

\* a file whose StudyInstanceUID is "NOne" was walked and dropped, and the
\* file after it gave a record
C3_Witness ==
    /\ fn = "series" /\ idx = 3 /\ last = "appended"
    /\ files[1].readable
    /\ StudyIdOf(files[1]) = PyStr(s_NoNe)
    /\ Len(hierarchy) = 1

\* C4: no SeriesRecord has series_id or dicom_series_id equal to "none" in
\* any letter case, and no PatientRecord has such a dicom_patient_id
C4_NoSentinelIdentifiers ==
    /\ fn = "series" =>
          \A i \in DOMAIN hierarchy :
              /\ Lower(hierarchy[i].series_id.v) # s_none
              /\ Lower(hierarchy[i].dicom_series_id.v) # s_none
    /\ fn = "patients" =>
          \A i \in DOMAIN patients :
              Lower(patients[i].dicom_patient_id.v) # s_none

\* C5: a file whose SeriesInstanceUID is absent, empty or "none" in any
\* letter case adds no PatientRecord, whatever its PatientID; a record that
\* is added has series_upload_id = series id of its file + "_" + upload_id
C5_PatientNeedsSeries ==
    [][AtFile("patients") =>
         /\ (files[idx].readable /\ NoneLike(PatientSeriesOf(files[idx])))
                => patients' = patients
         /\ patients' # patients =>
                /\ files[idx].readable
                /\ ~NoneLike(PatientSeriesOf(files[idx]))
                /\ Len(patients') = Len(patients) + 1
                /\ patients'[Len(patients')].series_upload_id =
                       PyStr(PatientSeriesOf(files[idx]).v \o s_under
                                 \o upload_id.v)]_vars

\* a file with a PatientID and the series id "NOne" was walked and gave no
\* record, and a file with a series id gave one
C5_Witness ==
    /\ fn = "patients" /\ idx = 3 /\ last = "appended"
    /\ files[1].readable
    /\ "PatientID" \in DOMAIN files[1].ds
    /\ PatientSeriesOf(files[1]) = PyStr(s_NoNe)
    /\ Len(patients) = 1
    /\ patients[1].series_upload_id = PyStr(s_se1 \o s_under \o s_up1)

\* C6: when no file can be parsed both functions return an empty list; they
\* never raise, and a parse failure leaves the walk at the next file
C6_UnparseableFilesGiveEmptyLists ==
    /\ []((wpc = "returned" /\ \A j \in DOMAIN files : ~files[j].readable)
             => (hierarchy = <<>> /\ patients = <<>>
                   /\ idx = Len(files) + 1))
    /\ [](wpc # "raised")
    /\ [][(wpc = "walk" /\ idx <= Len(files) /\ ~files[idx].readable)
            => (wpc' = "walk" /\ idx' = idx + 1
                  /\ hierarchy' = hierarchy /\ patients' = patients)]_vars

\* a walk over two unparseable files has returned
C6_Witness ==
    /\ wpc = "returned" /\ Len(files) = 2
    /\ \A j \in DOMAIN files : ~files[j].readable
    /\ hierarchy = <<>> /\ patients = <<>>

\* C7: the sex of every PatientRecord is one of M, F, O, A: an allowed
\* PatientSex is kept, an absent or any other one gives A
C7_SexIsAllowed ==
    /\ [](fn = "patients" =>
            \A i \in DOMAIN patients :
                patients[i].sex.v \in {<<"M">>, <<"F">>, <<"O">>, <<"A">>})
    /\ [][(AtFile("patients") /\ patients' # patients) =>
            patients'[Len(patients')].sex =
                IF "PatientSex" \in DOMAIN files[idx].ds
                   /\ files[idx].ds["PatientSex"].v
                        \in {<<"M">>, <<"F">>, <<"O">>, <<"A">>}
                THEN files[idx].ds["PatientSex"]
                ELSE PyStr(<<"A">>)]_vars

\* records were built from a file with PatientSex "X" and from one with "O"
C7_Witness ==
    /\ fn = "patients" /\ wpc = "returned" /\ Len(patients) = 2
    /\ DsGet(files[1].ds, "PatientSex", PyNone) = PyStr(s_X)
    /\ DsGet(files[2].ds, "PatientSex", PyNone) = PyStr(s_O)
    /\ patients[1].sex = PyStr(s_A)
    /\ patients[2].sex = PyStr(s_O)

\* int(x)/float(x) of a source value, null when it is falsy or when the
\* coercion fails
ClaimedInt(x) == IF Truthy(x) /\ CanInt(x) THEN IntOf(x) ELSE PyNone
ClaimedFloat(x) == IF Truthy(x) /\ CanFloat(x) THEN FloatOf(x) ELSE PyNone

\* C8: a file that parses, has a usable study id and a series id that is
\* not yet recorded gets a SeriesRecord whose numeric fields are the coercions of the
\* source values, null for a falsy value and for one that cannot be coerced
C8_NumericFieldsCoercedOrNull ==
    [][(AtFile("series") /\ files[idx].readable
          /\ ~NoneLike(StudyIdOf(files[idx]))
          /\ ~NoneLike(SeriesIdOf(files[idx]))
          /\ \A i \in DOMAIN hierarchy :
                 hierarchy[i].series_id # SeriesIdOf(files[idx]))
        => /\ Len(hierarchy') = Len(hierarchy) + 1
           /\ LET r == hierarchy'[Len(hierarchy')]
                  d == files[idx].ds
              IN  /\ r.series_number =
                         ClaimedInt(DsGet(d, "SeriesNumber", PyInt(0)))
                  /\ r.slice_thickness =
                         ClaimedFloat(DsGet(d, "SliceThickness", PyFloat(0)))
                  /\ r.number_of_slices =
                         ClaimedInt(DsGet(d, "ImagesInAcquisition", PyInt(0)))
      ]_vars

----------------------------------------------------------------------------
(* rawfile/lambda_function.py: inputs *)

s_c1      == <<"c","1">>
s_u1      == <<"u","1">>
s_st1     == <<"s","t","1">>
s_up2     == <<"u","p","2">>
s_slash   == <<"/">>
s_uploads == <<"u","p","l","o","a","d","s">>
s_extracted == <<"e","x","t","r","a","c","t","e","d">>
s_temp    == <<"t","e","m","p">>
s_tmpdir  == <<"/","t","m","p","/">>
s_raw     == <<".","r","a","w">>
s_settings == <<"-","s","e","t","t","i","n","g","s",".","j","s","o","n">>

\* the Message of an SNS record: JSON text that json.loads parses to a dict
\* (a key that is missing reads as None with .get), or text it cannot parse
Message(c, u, st, up) ==
    [parses |-> TRUE, company_id |-> c, user_id |-> u, status_id |-> st,
     upload_id |-> up]
BadMessage ==
    [parses |-> FALSE, company_id |-> PyNone, user_id |-> PyNone,
     status_id |-> PyNone, upload_id |-> PyNone]

Msg1 == Message(PyStr(s_c1), PyStr(s_u1), PyStr(s_st1), PyStr(s_up1))
Msg2 == Message(PyStr(s_c1), PyStr(s_u1), PyStr(s_st1), PyStr(s_up2))
MsgNoCompany == Message(PyNone, PyStr(s_u1), PyStr(s_st1), PyStr(s_up1))
MsgEmptyUpload == Message(PyStr(s_c1), PyStr(s_u1), PyNone, PyStr(<<>>))

Events ==
    { <<>>, <<Msg1>>, <<MsgNoCompany>>, <<MsgEmptyUpload>>, <<BadMessage>>,
      <<Msg1, Msg2>>, <<Msg1, Msg1>>, <<Msg1, MsgNoCompany>>,
      <<Msg1, BadMessage>> }

\* the pixel grid shape the handler requires (line 216)
valid_shape == <<512, 512>>

\* what process_dicom_metadata gives for the datasets of the listing
MetaA == ("Modality" :> PyStr(s_CT)) @@ ("Rows" :> PyInt(512))
MetaB == ("Modality" :> PyStr(<<"M","R">>)) @@ ("SeriesNumber" :> PyInt(7))

\* the samples of a decoded grid: whether PixelRepresentation flags them
\* signed, and their least and greatest value
Samples(signed, lo, hi) == [signed |-> signed, lo |-> lo, hi |-> hi]
NoSamples == Samples(FALSE, 0, 0)

\* an object of the listing: a key that ends with "/" or not, whether
\* download_file and dcmread succeed, whether the dataset has PixelData,
\* whether pixel_array decodes, to which shape and with which samples
RawFile(kind, shape, meta, px) ==
    [kind |-> kind, shape |-> shape, meta |-> meta, px |-> px]

\* the grids: 12-bit unsigned, 32-bit unsigned with values beyond the signed
\* 16-bit range, and 16-bit signed
RawFiles ==
    { RawFile("folder", <<>>, <<>>, NoSamples),
      RawFile("download_error", <<>>, <<>>, NoSamples),
      RawFile("unreadable", <<>>, <<>>, NoSamples),
      RawFile("decode_error", <<>>, MetaA, NoSamples),
      RawFile("no_pixels", <<>>, MetaB, NoSamples),
      RawFile("pixels", <<512, 512>>, MetaA, Samples(FALSE, 0, 4095)),
      RawFile("pixels", <<512, 512>>, MetaB, Samples(FALSE, 0, 70000)),
      RawFile("pixels", <<256, 256>>, MetaA, Samples(TRUE, -1024, 3071)),
      RawFile("pixels", <<2, 512, 512>>, MetaB, Samples(FALSE, 0, 4095)) }

\* response['Contents'] is modelled as the loop of line 219 reads it: the
\* variable contents holds the objects up to the one the loop is at, and
\* each iteration either finds one more object or the end of the listing;
\* the listings of one invocation return at most MaxContents objects, and
\* a folder that is listed again returns the same objects in the same order
FirstObjects == {<<f>> : f \in RawFiles}
MoreObjects(c) ==
    {c} \cup (IF listed < MaxContents THEN {Append(c, f) : f \in RawFiles}
              ELSE {})

----------------------------------------------------------------------------
(* rawfile/lambda_function.py: helpers *)

\* a numpy array: its shape and its samples in memory order, each source
\* grid standing for its samples
NpArray(shape, data) == [t |-> "array", v |-> [shape |-> shape, data |-> data]]

RECURSIVE SumDim0(_)
SumDim0(l) == IF l = <<>> THEN 0 ELSE Head(l).v.shape[1] + SumDim0(Tail(l))

RECURSIVE ConcatData(_)
ConcatData(l) ==
    IF l = <<>> THEN <<>> ELSE Head(l).v.data \o ConcatData(Tail(l))

\* np.concatenate(l, axis=0) raises ValueError: a zero-dimensional array, or
\* arrays that differ in a dimension other than the first
ConcatenateRaises(l) ==
    \E i \in DOMAIN l :
        \/ l[i].v.shape = <<>>
        \/ Tail(l[i].v.shape) # Tail(l[1].v.shape)

\* np.concatenate(l, axis=0): the arrays joined along their first axis
Concatenate(l) ==
    NpArray(<<SumDim0(l)>> \o Tail(l[1].v.shape), ConcatData(l))

\* faulty variant: any two-dimensional grid is accepted
ShapeAccepted_AnyGrid(shape) == Len(shape) = 2

\* line 238: if pixel_array.shape == valid_shape
ShapeAccepted(shape) == shape = valid_shape

\* faulty variant: a later file overwrites the keys it shares
MergeMetadata_LastWins(combined, file_metadata) ==
    [tag \in DOMAIN combined \cup DOMAIN file_metadata |->
        IF tag \in DOMAIN file_metadata THEN file_metadata[tag]
        ELSE combined[tag]]

\* lines 248-250: keys already in combined_metadata are kept
MergeMetadata(combined, file_metadata) ==
    [tag \in DOMAIN combined \cup DOMAIN file_metadata |->
        IF tag \in DOMAIN combined THEN combined[tag] ELSE file_metadata[tag]]

\* s.rstrip('/')
RECURSIVE RStripSlash(_)
RStripSlash(s) ==
    IF s # <<>> /\ s[Len(s)] = "/" THEN RStripSlash(SubSeq(s, 1, Len(s) - 1))
    ELSE s

\* s.rsplit('/', n)[0]
RECURSIVE RSplitHead(_, _)
RSplitHead(s, n) ==
    IF n = 0 \/ \A i \in DOMAIN s : s[i] # "/" THEN s
    ELSE LET k == CHOOSE i \in DOMAIN s :
                      s[i] = "/" /\ \A j \in (i + 1)..Len(s) : s[j] # "/"
         IN  RSplitHead(SubSeq(s, 1, k - 1), n - 1)

\* os.path.basename(key)
Basename(key) == LET parts == Split(key, "/") IN parts[Len(parts)]

\* lines 193-194
FolderKey(m) ==
    RStripSlash(StrOf(m.company_id) \o s_slash \o StrOf(m.user_id) \o s_slash
                \o s_uploads \o s_slash \o StrOf(m.upload_id) \o s_slash
                \o s_extracted \o s_slash) \o s_slash

\* lines 264-265
BaseOutputKey(m) ==
    RSplitHead(FolderKey(m), 3) \o s_slash \o StrOf(m.upload_id) \o s_slash
        \o s_temp \o s_slash \o StrOf(m.upload_id)

\* the Key of the i-th object of the listing of message m
KeyOf(m, i, f) ==
    IF f.kind = "folder" THEN FolderKey(m) \o <<"d">> \o Digits(i) \o s_slash
    ELSE FolderKey(m) \o <<"f">> \o Digits(i)

\* line 235: dicom_dataset.pixel_array of the i-th object of the listing; the
\* grid stands for its samples, which the handler never changes
PixelArray(m, i, f) ==
    NpArray(f.shape, <<[src |-> KeyOf(m, i, f), px |-> f.px]>>)

\* faulty variant: only company_id is tested
MissingRequired_CompanyOnly(m) == ~Truthy(m.company_id)

\* line 182: if not (company_id and user_id and upload_id)
MissingRequired(m) ==
    ~(Truthy(m.company_id) /\ Truthy(m.user_id) /\ Truthy(m.upload_id))

\* lines 284-288
OutputDimensions(cpd) ==
    [ width  |-> IF cpd # PyNone THEN cpd.v.shape[2] ELSE 0,
      height |-> IF cpd # PyNone THEN cpd.v.shape[1] ELSE 0,
      depth  |-> IF cpd # PyNone /\ Len(cpd.v.shape) > 2
                 THEN cpd.v.shape[3] ELSE 1 ]

----------------------------------------------------------------------------
(* rawfile/lambda_function.py: lambda_handler *)

\* lines 25-42, send_error_notification: the message is published on the
\* error topic, or the publish raises and the failure is only printed
ErrorNotification(error_type, usr, delivered) ==
    [topic |-> "ERROR_TOPIC_ARN", error_type |-> error_type, user_id |-> usr,
     delivered |-> delivered]

Notified(error_type, usr, delivered) ==
    Append(sns, ErrorNotification(error_type, usr, delivered))

rawLoopVars == <<contents, fidx, combined_pixel_data, combined_metadata>>

\* the locals of a record are dead once the record is left
LocalsGone ==
    /\ contents' = <<>> /\ fidx' = 0
    /\ combined_pixel_data' = PyNone /\ combined_metadata' = <<>>

\* faulty variant: the except clause raises again, no result is returned
Return500_Reraise(outcome) ==
    /\ rpc' = "raised"
    /\ result' = result
    /\ rlast' = outcome
    /\ LocalsGone

\* lines 375-380: the except clause of the handler
Return500(outcome) ==
    /\ rpc' = "done"
    /\ result' = [statusCode |-> 500, body |-> "Error"]
    /\ rlast' = outcome
    /\ LocalsGone

AtRecord == rpc = "record" /\ rec <= Len(event)

\* line 171: json.loads raises
RawBadMessage ==
    /\ AtRecord /\ ~event[rec].parses
    /\ Return500("bad_message")
    /\ UNCHANGED <<event, bucket, listed, rec, tmp, s3, db, sns>>
    /\ UNCHANGED <<walkVars, stageVars>>

\* lines 182-189: a required key is missing or empty
RawMissingFields ==
    /\ AtRecord /\ event[rec].parses /\ MissingRequired(event[rec])
    /\ \E delivered \in BOOLEAN :
          sns' = Notified("VALIDATION_ERROR", event[rec].user_id, delivered)
    /\ Return500("missing_fields")
    /\ UNCHANGED <<event, bucket, listed, rec, tmp, s3, db>>
    /\ UNCHANGED <<walkVars, stageVars>>

\* lines 175-195: the record is accepted
RawValidated ==
    /\ AtRecord /\ event[rec].parses /\ ~MissingRequired(event[rec])
    /\ rpc' = "list"
    /\ rlast' = "validated"
    /\ UNCHANGED <<event, bucket, listed, rec, tmp, s3, db, sns, result>>
    /\ UNCHANGED rawLoopVars /\ UNCHANGED <<walkVars, stageVars>>

\* line 198: list_objects_v2 raises
RawListError ==
    /\ rpc = "list"
    /\ Return500("list_error")
    /\ UNCHANGED <<event, bucket, listed, rec, tmp, s3, db, sns>>
    /\ UNCHANGED <<walkVars, stageVars>>

\* the record lists the folder that the record before it has listed
Relisting == rec > 1 /\ FolderKey(event[rec]) = FolderKey(event[rec - 1])

\* line 198: the first object of response['Contents']
ListedFirst ==
    IF Relisting THEN {SubSeq(bucket, 1, 1)}
    ELSE IF listed < MaxContents THEN FirstObjects ELSE {}

\* line 219: the listing as the next iteration of the loop finds it
ListedNext ==
    IF Relisting
    THEN {IF Len(contents) < Len(bucket)
          THEN SubSeq(bucket, 1, Len(contents) + 1) ELSE contents}
    ELSE MoreObjects(contents)

\* lines 201-212: the response has no 'Contents'
RawNoFiles ==
    /\ rpc = "list" /\ ~Relisting
    /\ \E delivered \in BOOLEAN :
          sns' = Notified("S3_ERROR", event[rec].user_id, delivered)
    /\ rpc' = "done"
    /\ result' = [statusCode |-> 400, body |-> "No files found in the folder"]
    /\ rlast' = "no_files"
    /\ bucket' = <<>>
    /\ UNCHANGED <<event, listed, rec, tmp, s3, db>>
    /\ LocalsGone
    /\ UNCHANGED <<walkVars, stageVars>>

\* lines 198 and 214-217: the listing, and the empty accumulators
RawListed ==
    /\ rpc = "list"
    /\ contents' \in ListedFirst
    /\ bucket' = IF Relisting THEN bucket ELSE contents'
    /\ listed' = IF Relisting THEN listed
               ELSE listed + Len(contents') - Len(contents)
    /\ fidx' = 1
    /\ combined_pixel_data' = PyList(<<>>)
    /\ combined_metadata' = <<>>
    /\ rpc' = "files"
    /\ rlast' = "listed"
    /\ UNCHANGED <<event, rec, tmp, s3, db, sns, result>>
    /\ UNCHANGED <<walkVars, stageVars>>

AtObject(kind) ==
    rpc = "files" /\ fidx <= Len(contents) /\ contents[fidx].kind = kind

\* one iteration of the loop of line 219 that ends normally: the scratch
\* copy /tmp/<basename> is downloaded (line 229) and removed again in the
\* finally clause (line 252)
RawFileDone(outcome, cpd, meta) ==
    /\ fidx' = fidx + 1
    /\ contents' \in ListedNext
    /\ bucket' = IF Relisting THEN bucket ELSE contents'
    /\ listed' = IF Relisting THEN listed
               ELSE listed + Len(contents') - Len(contents)
    /\ combined_pixel_data' = cpd
    /\ combined_metadata' = meta
    /\ rlast' = outcome
    /\ UNCHANGED <<event, rec, rpc, tmp, s3, db, sns, result>>
    /\ UNCHANGED <<walkVars, stageVars>>

\* one iteration that raises: the finally clause has removed the scratch
\* copy if there was one, and the handler returns
RawFileRaised(outcome) ==
    /\ Return500(outcome)
    /\ UNCHANGED <<event, bucket, listed, rec, tmp, s3, db, sns>>
    /\ UNCHANGED <<walkVars, stageVars>>

\* lines 223-225: a key that ends with '/'
RawFileFolder ==
    /\ AtObject("folder")
    /\ RawFileDone("folder", combined_pixel_data, combined_metadata)

\* line 229: download_file raises
RawFileDownloadError ==
    /\ AtObject("download_error")
    /\ RawFileRaised("download_error")

\* line 233: dcmread raises
RawFileUnreadable ==
    /\ AtObject("unreadable")
    /\ RawFileRaised("unreadable")

\* line 235: pixel_array raises
RawFileDecodeError ==
    /\ AtObject("decode_error")
    /\ RawFileRaised("decode_error")

\* line 234: the dataset has no PixelData
RawFileNoPixels ==
    /\ AtObject("no_pixels")
    /\ RawFileDone("no_pixels", combined_pixel_data,
                   MergeMetadata(combined_metadata, contents[fidx].meta))

\* lines 238-240: the frame is accepted
RawFileAccepted ==
    /\ AtObject("pixels") /\ ShapeAccepted(contents[fidx].shape)
    /\ RawFileDone("accepted",
           PyList(Append(combined_pixel_data.v,
                         PixelArray(event[rec], fidx, contents[fidx]))),
           MergeMetadata(combined_metadata, contents[fidx].meta))

\* lines 241-242: the frame has another shape
RawFileShapeMismatch ==
    /\ AtObject("pixels") /\ ~ShapeAccepted(contents[fidx].shape)
    /\ RawFileDone("shape_mismatch", combined_pixel_data,
                   MergeMetadata(combined_metadata, contents[fidx].meta))

\* lines 255-258: the accepted frames are combined; with no accepted frame
\* the empty list is left as it is
RawCombine ==
    /\ rpc = "files" /\ fidx > Len(contents)
    /\ ~Truthy(combined_pixel_data)
          \/ ~ConcatenateRaises(combined_pixel_data.v)
    /\ combined_pixel_data' =
          IF ~Truthy(combined_pixel_data) THEN combined_pixel_data
          ELSE Concatenate(combined_pixel_data.v)
    /\ rpc' = "write"
    /\ rlast' = "combined"
    /\ UNCHANGED <<event, bucket, listed, rec, contents, fidx, combined_metadata, tmp, s3, db,
                   sns, result>>
    /\ UNCHANGED <<walkVars, stageVars>>

\* lines 259-261: np.concatenate raises (grids that do not fit together, or
\* no memory for the result); the error is printed and combined_pixel_data
\* is None from here on
RawCombineError ==
    /\ rpc = "files" /\ fidx > Len(contents)
    /\ Truthy(combined_pixel_data)
    /\ combined_pixel_data' = PyNone
    /\ rpc' = "write"
    /\ rlast' = "combine_error"
    /\ UNCHANGED <<event, bucket, listed, rec, contents, fidx, combined_metadata, tmp, s3, db,
                   sns, result>>
    /\ UNCHANGED <<walkVars, stageVars>>

\* the two objects of lines 266-267 and their content
RawObject(m, cpd) ==
    [ key  |-> BaseOutputKey(m) \o s_raw,
      body |-> IF cpd = PyNone THEN <<>> ELSE cpd.v.data ]
SettingsObject(m, cpd, meta) ==
    [ key  |-> BaseOutputKey(m) \o s_settings,
      body |-> [ dicom_metadata |-> meta,
                 output_dimensions |-> OutputDimensions(cpd),
                 voxel_scale |-> [x |-> 1, y |-> 1, z |-> 1] ] ]

\* line 277: combined_pixel_data is still the empty list, which has no
\* tofile; the finally clause removes the raw scratch file and then fails on
\* the settings file that was never written
RawWriteNoFrames ==
    /\ rpc = "write" /\ combined_pixel_data.t = "list"
    /\ Return500("no_frames")
    /\ UNCHANGED <<event, bucket, listed, rec, tmp, s3, db, sns>>
    /\ UNCHANGED <<walkVars, stageVars>>

\* lines 273-330: both scratch files are written; uploaded is the number of
\* uploads that succeed before one raises; the finally clause removes both
\* scratch files
RawWriteUploadError ==
    /\ rpc = "write" /\ combined_pixel_data.t # "list"
    /\ \E uploaded \in {0, 1} :
          s3' = IF uploaded = 0 THEN s3
                ELSE Append(s3, RawObject(event[rec], combined_pixel_data))
    /\ Return500("upload_error")
    /\ UNCHANGED <<event, bucket, listed, rec, tmp, db, sns>>
    /\ UNCHANGED <<walkVars, stageVars>>

RawWriteUploaded ==
    /\ rpc = "write" /\ combined_pixel_data.t # "list"
    /\ s3' = s3 \o <<RawObject(event[rec], combined_pixel_data),
                     SettingsObject(event[rec], combined_pixel_data,
                                    combined_metadata)>>
    /\ rpc' = "db"
    /\ rlast' = "uploaded"
    /\ UNCHANGED <<event, bucket, listed, rec, tmp, db, sns, result>>
    /\ UNCHANGED rawLoopVars /\ UNCHANGED <<walkVars, stageVars>>

\* line 23: the module-level conversion_id, one uuid4 per loaded module
conversion_id == PyStr(UuidHex(0))

\* lines 333-341: the three record-store writes of a record, in order
DbWrites(m, raw_url, json_url) ==
    << [table |-> "files", op |-> "update", id |-> m.upload_id,
        status |-> "raw_file_generated"],
       [table |-> "status_history", op |-> "update", id |-> m.status_id,
        status |-> "raw_file_generated"],
       [table |-> "file_conversion", op |-> "insert", id |-> conversion_id,
        status |-> "pending", file_id |-> m.upload_id,
        raw_file_path |-> BaseOutputKey(m) \o s_raw,
        pre_signed_raw |-> raw_url, pre_signed_json |-> json_url] >>

\* generate_presigned_url: the URL, or None when the client raises
PresignedUrls(key) == {PyStr(<<"h","t","t","p","s",":">> \o key), PyNone}

\* faulty variant: the failed write undoes the uploads of the record
RawDbError_RolledBack ==
    /\ rpc = "db"
    /\ \E delivered \in BOOLEAN :
          sns' = Notified("DATABASE_ERROR", event[rec].user_id, delivered)
    /\ s3' = SubSeq(s3, 1, Len(s3) - 2)
    /\ Return500("db_error")
    /\ UNCHANGED <<event, bucket, listed, rec, tmp, db>>
    /\ UNCHANGED <<walkVars, stageVars>>

\* lines 342-349: write number failed raises after the ones before it were
\* made; the error is notified and raised again
RawDbError ==
    /\ rpc = "db"
    /\ \E failed \in 1..3, delivered \in BOOLEAN :
          /\ db' = db \o SubSeq(DbWrites(event[rec], PyNone, PyNone),
                                1, failed - 1)
          /\ sns' = Notified("DATABASE_ERROR", event[rec].user_id, delivered)
    /\ Return500("db_error")
    /\ UNCHANGED <<event, bucket, listed, rec, tmp, s3>>
    /\ UNCHANGED <<walkVars, stageVars>>

\* lines 333-361: the writes are made, the message for the next stage is
\* built and printed (the publish of lines 363-368 is commented out), and
\* the loop of line 165 goes to the next record
RawDbDone ==
    /\ rpc = "db"
    /\ \E raw_url \in PresignedUrls(BaseOutputKey(event[rec]) \o s_raw),
          json_url \in PresignedUrls(BaseOutputKey(event[rec]) \o s_settings) :
          db' = db \o DbWrites(event[rec], raw_url, json_url)
    /\ rec' = rec + 1
    /\ rpc' = "record"
    /\ rlast' = "record_done"
    /\ UNCHANGED <<event, bucket, listed, tmp, s3, sns, result>>
    /\ LocalsGone
    /\ UNCHANGED <<walkVars, stageVars>>

\* lines 370-373: the loop is over; with no record at all folder_key is not
\* bound, the f-string raises NameError and the except clause returns 500
RawReturn ==
    /\ rpc = "record" /\ rec > Len(event)
    /\ rpc' = "done"
    /\ result' = IF event = <<>> THEN [statusCode |-> 500, body |-> "Error"]
                 ELSE [statusCode |-> 200, body |-> "Processed all valid files"]
    /\ rlast' = "return"
    /\ UNCHANGED <<event, bucket, listed, rec, tmp, s3, db, sns>>
    /\ LocalsGone
    /\ UNCHANGED <<walkVars, stageVars>>

InitRaw ==
    /\ fn = "rawfile"
    /\ files = <<>> /\ user_id = PyNone /\ upload_id = PyNone
    /\ idx = 0 /\ clock = 0 /\ uuid_calls = 0
    /\ hierarchy = <<>> /\ patients = <<>> /\ seen_patients = {}
    /\ wpc = "idle" /\ last = "idle"
    /\ event \in Events
    /\ bucket = <<>>
    /\ listed = 0
    /\ rec = 1
    /\ rpc = "record"
    /\ contents = <<>>
    /\ fidx = 0
    /\ combined_pixel_data = PyNone
    /\ combined_metadata = <<>>
    /\ tmp = {}
    /\ s3 = <<>>
    /\ db = <<>>
    /\ sns = <<>>
    /\ result = PyNone
    /\ rlast = "invoked"
    /\ StageIdle

NextRaw ==
    \/ RawBadMessage
    \/ RawMissingFields
    \/ RawValidated
    \/ RawListError
    \/ RawNoFiles
    \/ RawListed
    \/ RawFileFolder
    \/ RawFileDownloadError
    \/ RawFileUnreadable
    \/ RawFileDecodeError
    \/ RawFileNoPixels
    \/ RawFileAccepted
    \/ RawFileShapeMismatch
    \/ RawCombine
    \/ RawCombineError
    \/ RawWriteNoFrames
    \/ RawWriteUploadError
    \/ RawWriteUploaded
    \/ RawDbError
    \/ RawDbDone
    \/ RawReturn

SpecRaw == InitRaw /\ [][NextRaw]_vars

----------------------------------------------------------------------------
(* The other stage handlers: what they share *)

\* the walks of series_extract.py are not running
WalkIdle ==
    /\ files = <<>> /\ user_id = PyNone /\ upload_id = PyNone
    /\ idx = 0 /\ clock = 0 /\ uuid_calls = 0
    /\ hierarchy = <<>> /\ patients = <<>> /\ seen_patients = {}
    /\ wpc = "idle" /\ last = "idle"

\* the locals of the rawfile handler, which the other handlers do not have
rawLocals == <<bucket, listed, rec, contents, fidx, combined_pixel_data,
               combined_metadata>>

RawLocalsIdle ==
    /\ bucket = <<>> /\ listed = 0 /\ rec = 0 /\ contents = <<>> /\ fidx = 0
    /\ combined_pixel_data = PyNone /\ combined_metadata = <<>>

\* the world before a handler is invoked
WorldIdle ==
    /\ tmp = {} /\ s3 = <<>> /\ db = <<>> /\ sns = <<>>
    /\ result = PyNone /\ rlast = "invoked"

\* a handler returns this result
Returns(code, body, outcome) ==
    /\ rpc' = "done"
    /\ result' = [statusCode |-> code, body |-> body]
    /\ rlast' = outcome

\* a message published on the topic of the next stage: delivered, or the
\* publish call raised
StageMessage(status, usr, delivered) ==
    [topic |-> "SNS_TOPIC_ARN", status |-> status, user_id |-> usr,
     delivered |-> delivered]

\* s.endswith(suffix)
EndsWith(str, suffix) ==
    /\ Len(str) >= Len(suffix)
    /\ SubSeq(str, Len(str) - Len(suffix) + 1, Len(str)) = suffix

s_input   == <<"i","n","p","u","t">>
s_output  == <<"o","u","t","p","u","t">>
s_zip     == <<".","z","i","p">>
s_unknown == <<"u","n","k","n","o","w","n">>
s_arn     == <<"a","r","n">>

----------------------------------------------------------------------------
(* dicomfilehandler/lambda_function.py: lambda_handler *)

\* the object key of an S3 event record
ZipKey(folder, name) ==
    s_c1 \o s_slash \o s_u1 \o s_slash \o s_uploads \o s_slash \o s_up1
        \o s_slash \o folder \o s_slash \o name

\* event['Records'] as the object keys of its records: no record, the upload
\* archive, another archive of the folder, an archive outside input/, a key
\* with fewer than six parts
ZipEvents ==
    { <<>>,
      <<ZipKey(s_input, s_up1 \o s_zip)>>,
      <<ZipKey(s_input, s_up2 \o s_zip)>>,
      <<ZipKey(s_output, s_up1 \o s_zip)>>,
      <<s_c1 \o s_slash \o s_up1 \o s_zip>> }

\* zip_file.infolist() of the archive: the names and sizes of its entries
ZipEntry(filename, file_size) == [filename |-> filename, file_size |-> file_size]
ZipArchives ==
    { <<>>,
      <<ZipEntry(<<"d","/">>, 0), ZipEntry(<<"d","/","a">>, 5)>>,
      <<ZipEntry(<<"a">>, 5), ZipEntry(<<"b">>, 7)>> }

\* line 163
ZipParts == Split(event[1], "/")

\* lines 167-170 and 180
ZipCompanyId == PyStr(ZipParts[1])
ZipUserId    == PyStr(ZipParts[2])
ZipUploadId  == PyStr(ZipParts[4])
ZipStatusId  == PyStr(UuidHex(0))
ExtractedPrefix ==
    ZipParts[1] \o s_slash \o ZipParts[2] \o s_slash \o s_uploads \o s_slash
        \o ZipParts[4] \o s_slash \o s_extracted \o s_slash \o ZipParts[4]

\* lines 158-165: there is no record, or the key has fewer than six parts
ZipEventRaises == IF event = <<>> THEN TRUE ELSE Len(ZipParts) < 6

\* line 173
ZipNotForProcessing ==
    \/ ~EndsWith(event[1], ZipParts[4] \o s_zip)
    \/ ZipParts[5] # s_input

\* lines 84-98: the objects uploaded for the entries of non-zero size
RECURSIVE ExtractedObjects(_, _)
ExtractedObjects(prefix, entries) ==
    IF entries = <<>> THEN <<>>
    ELSE (IF Head(entries).file_size > 0
          THEN <<[key  |-> prefix \o s_slash \o Head(entries).filename,
                  body |-> <<Head(entries).filename>>]>>
          ELSE <<>>) \o ExtractedObjects(prefix, Tail(entries))

ZipAt(position) == fn = "dicomfilehandler" /\ rpc = position

zipFrame == <<event, rawLocals, tmp, walkVars, stageVars>>


\* lines 230-242: the except clause of the handler
ZipOnError(usr, delivered) ==
    /\ sns' = Notified("GENERAL_ERROR", usr, delivered)
    /\ Returns(500, "Error", "error")

\* lines 158-165: event['Records'][0] or the key check raises; user_id is
\* not bound yet, the notification names 'unknown'
ZipBadEvent ==
    /\ ZipAt("invoked") /\ ZipEventRaises
    /\ \E delivered \in BOOLEAN : ZipOnError(PyStr(s_unknown), delivered)
    /\ UNCHANGED <<s3, db>> /\ UNCHANGED zipFrame

\* lines 173-177: the object is not the upload archive
ZipSkipped ==
    /\ ZipAt("invoked") /\ ~ZipEventRaises /\ ZipNotForProcessing
    /\ Returns(200, "File skipped - not for processing", "skipped")
    /\ UNCHANGED <<s3, db, sns>> /\ UNCHANGED zipFrame

\* lines 43-115 and 222-228: process_zip_file_streaming fails (head_object,
\* a chunk download, the archive, or an upload after some entries were
\* uploaded), notifies and returns False; the handler returns 500
ZipExtractFailed ==
    /\ ZipAt("invoked") /\ ~ZipEventRaises /\ ~ZipNotForProcessing
    /\ \E entries \in ZipArchives, delivered \in BOOLEAN :
          LET objects == ExtractedObjects(ExtractedPrefix, entries)
          IN  \E uploaded \in 0..(IF objects = <<>> THEN 0
                                  ELSE Len(objects) - 1) :
                  /\ s3' = s3 \o Take(objects, uploaded)
                  /\ sns' = Notified("ZIP_PROCESSING_ERROR", ZipUserId,
                                     delivered)
    /\ Returns(500, "Processing failed", "extract_failed")
    /\ UNCHANGED db /\ UNCHANGED zipFrame

\* lines 43-101 and 181: every entry of non-zero size is uploaded and
\* process_zip_file_streaming returns True
ZipExtracted ==
    /\ ZipAt("invoked") /\ ~ZipEventRaises /\ ~ZipNotForProcessing
    /\ \E entries \in ZipArchives :
          s3' = s3 \o ExtractedObjects(ExtractedPrefix, entries)
    /\ rpc' = "file_record"
    /\ rlast' = "extracted"
    /\ UNCHANGED <<db, sns, result>> /\ UNCHANGED zipFrame

\* faulty variant: when update_file_record returns False the handler gives up
ZipFileRecord_GivesUp ==
    /\ ZipAt("file_record")
    /\ \/ /\ db' = Append(db, [table |-> "files", op |-> "update",
                               id |-> ZipUploadId, status |-> "extracted"])
          /\ sns' = sns
          /\ rpc' = "status_history"
          /\ rlast' = "file_record"
          /\ result' = result
       \/ /\ db' = db
          /\ \E delivered \in BOOLEAN :
                sns' = Notified("DATABASE_ERROR", ZipUserId, delivered)
          /\ Returns(500, "Error", "file_record")
    /\ UNCHANGED s3 /\ UNCHANGED zipFrame

\* lines 117-131 and 183-189: update_file_record; when it returns False
\* the failure is notified
ZipFileRecord ==
    /\ ZipAt("file_record")
    /\ \/ /\ db' = Append(db, [table |-> "files", op |-> "update",
                               id |-> ZipUploadId, status |-> "extracted"])
          /\ sns' = sns
       \/ /\ db' = db
          /\ \E delivered \in BOOLEAN :
                sns' = Notified("DATABASE_ERROR", ZipUserId, delivered)
    /\ rpc' = "status_history"
    /\ rlast' = "file_record"
    /\ UNCHANGED <<s3, result>> /\ UNCHANGED zipFrame

\* lines 133-151 and 191-197: insert_status_history, in the same way
ZipStatusHistory ==
    /\ ZipAt("status_history")
    /\ \/ /\ db' = Append(db, [table |-> "status_history", op |-> "insert",
                               id |-> ZipStatusId, status |-> "extracted"])
          /\ sns' = sns
       \/ /\ db' = db
          /\ \E delivered \in BOOLEAN :
                sns' = Notified("DATABASE_ERROR", ZipUserId, delivered)
    /\ rpc' = "notify"
    /\ rlast' = "status_history"
    /\ UNCHANGED <<s3, result>> /\ UNCHANGED zipFrame

\* lines 199-220: the message for the next stage is published when the
\* topic is configured, and the handler returns 200
ZipNotified ==
    /\ ZipAt("notify")
    /\ sns' = IF Truthy(SNS_TOPIC_ARN)
              THEN Append(sns, StageMessage("Success", ZipUserId, TRUE))
              ELSE sns
    /\ Returns(200, "Processing completed successfully", "notified")
    /\ UNCHANGED <<s3, db>> /\ UNCHANGED zipFrame

\* lines 211-214 and 230-242: the publish raises inside the try of the
\* handler; the except clause notifies and returns 500
ZipNotifyError ==
    /\ ZipAt("notify") /\ Truthy(SNS_TOPIC_ARN)
    /\ \E delivered \in BOOLEAN :
          sns' = sns \o <<StageMessage("Success", ZipUserId, FALSE),
                          ErrorNotification("GENERAL_ERROR", ZipUserId,
                                            delivered)>>
    /\ Returns(500, "Error", "notify_error")
    /\ UNCHANGED <<s3, db>> /\ UNCHANGED zipFrame

InitZip ==
    /\ fn = "dicomfilehandler"
    /\ WalkIdle /\ RawLocalsIdle /\ WorldIdle
    /\ event \in ZipEvents
    /\ rpc = "invoked"
    /\ SNS_TOPIC_ARN \in {PyNone, PyStr(s_arn)}
    /\ output_files = <<>>
    /\ json_data = PyNone /\ dicom_data = PyNone /\ metadata = PyNone
    /\ image_id = PyNone /\ metadata_records = <<>> /\ batch_start = 0
    /\ CleanIdle

NextZip ==
    \/ ZipBadEvent
    \/ ZipSkipped
    \/ ZipExtractFailed
    \/ ZipExtracted
    \/ ZipFileRecord
    \/ ZipStatusHistory
    \/ ZipNotified
    \/ ZipNotifyError

SpecZip == InitZip /\ [][NextZip]_vars

----------------------------------------------------------------------------
(* conversion-process/lambda_function.py: lambda_handler *)

s_cv1     == <<"c","v","1">>
s_Success == <<"S","u","c","c","e","s","s">>
s_Failed  == <<"F","a","i","l","e","d">>
s_dash_output == <<"-","o","u","t","p","u","t">>

\* the Message the rawfile stage builds for the next stages (rawfile lines
\* 351-360): json.loads gives a dict, a missing key reads as None with .get
StageInput(c, u, up, st, cv, status) ==
    [parses |-> TRUE, company_id |-> c, user_id |-> u, upload_id |-> up,
     status_id |-> st, conversion_id |-> cv, status |-> status]

StageMsg ==
    StageInput(PyStr(s_c1), PyStr(s_u1), PyStr(s_up1), PyStr(s_st1),
               PyStr(s_cv1), PyStr(s_Success))
StageMsgNoIds ==
    StageInput(PyNone, PyNone, PyNone, PyNone, PyNone, PyStr(s_Success))
StageMsgFailed ==
    StageInput(PyStr(s_c1), PyStr(s_u1), PyStr(s_up1), PyStr(s_st1),
               PyStr(s_cv1), PyStr(s_Failed))

\* event['Records']: no record, a message that is not JSON, the message of
\* the stage before, a message without identifiers
ConvEvents == { <<>>, <<BadMessage>>, <<StageMsg>>, <<StageMsgNoIds>> }

\* line 107: event['Records'][0] or json.loads raises
StageEventRaises == IF event = <<>> THEN TRUE ELSE ~event[1].parses

\* lines 117 and 122
ConvOutputKey(m, n) ==
    StrOf(m.company_id) \o s_slash \o StrOf(m.user_id) \o s_slash
        \o s_uploads \o s_slash \o StrOf(m.upload_id) \o s_slash
        \o s_output \o s_slash \o StrOf(m.upload_id) \o s_dash_output
        \o Digits(n)

\* line 125: the name tempfile gives the n-th temporary file
ConvTmpName(n) == s_tmpdir \o <<"t","m","p">> \o Digits(n)

\* lines 138-145: the four record-store updates, in order
ConvDbWrites(m) ==
    << [table |-> "files", op |-> "update", id |-> m.upload_id,
        status |-> "converted"],
       [table |-> "status_history", op |-> "update", id |-> m.status_id,
        status |-> "converted"],
       [table |-> "file_conversion", op |-> "update",
        id |-> m.conversion_id, status |-> "completed"],
       [table |-> "users", op |-> "update", id |-> m.user_id,
        status |-> "completed"] >>

ConvAt(position) == fn = "conversion-process" /\ rpc = position

convFrame == <<event, rawLocals, walkVars, SNS_TOPIC_ARN, json_data,
               dicom_data, metadata, image_id, metadata_records, batch_start,
               data_in, cleaned>>

\* lines 178-185: the except clause of the handler
ConvOnError(outcome) == Returns(500, "Error occurred", outcome)

\* line 107 raises
ConvBadEvent ==
    /\ ConvAt("invoked") /\ StageEventRaises
    /\ ConvOnError("bad_event")
    /\ UNCHANGED <<tmp, s3, db, sns, output_files>> /\ UNCHANGED convFrame

\* lines 107-120: the message is parsed and the loop starts
ConvParsed ==
    /\ ConvAt("invoked") /\ ~StageEventRaises
    /\ rpc' = "outputs"
    /\ rlast' = "parsed"
    /\ UNCHANGED <<tmp, s3, db, sns, result, output_files>>
    /\ UNCHANGED convFrame

\* lines 121-135: one output file is written to a temporary file, uploaded,
\* and the temporary file is removed
ConvOutputFile ==
    /\ ConvAt("outputs") /\ Len(output_files) < 3
    /\ LET key == ConvOutputKey(event[1], Len(output_files) + 1)
       IN  /\ s3' = Append(s3, [key |-> key, body |-> <<key>>])
           /\ output_files' = Append(output_files, key)
    /\ rlast' = "output_file"
    /\ UNCHANGED <<rpc, tmp, db, sns, result>> /\ UNCHANGED convFrame

\* line 130: upload_file raises inside the with block; line 135 is not
\* reached and the temporary file (delete=False) stays
ConvUploadError ==
    /\ ConvAt("outputs") /\ Len(output_files) < 3
    /\ tmp' = tmp \cup {ConvTmpName(Len(output_files) + 1)}
    /\ ConvOnError("upload_error")
    /\ UNCHANGED <<s3, db, sns, output_files>> /\ UNCHANGED convFrame

\* lines 138-145: update number failed raises after the ones before it
ConvDbError ==
    /\ ConvAt("outputs") /\ Len(output_files) = 3
    /\ \E failed \in 1..4 :
          db' = db \o SubSeq(ConvDbWrites(event[1]), 1, failed - 1)
    /\ ConvOnError("db_error")
    /\ UNCHANGED <<tmp, s3, sns, output_files>> /\ UNCHANGED convFrame

\* lines 138-160: the four updates are made
ConvDbDone ==
    /\ ConvAt("outputs") /\ Len(output_files) = 3
    /\ db' = db \o ConvDbWrites(event[1])
    /\ rpc' = "publish"
    /\ rlast' = "db_done"
    /\ UNCHANGED <<tmp, s3, sns, result, output_files>>
    /\ UNCHANGED convFrame

\* lines 162-176: the completion message is published and the handler
\* returns 200
ConvPublished ==
    /\ ConvAt("publish")
    /\ sns' = Append(sns, StageMessage("Completed", event[1].user_id, TRUE))
    /\ Returns(200, "Output files generated successfully.", "published")
    /\ UNCHANGED <<tmp, s3, db, output_files>> /\ UNCHANGED convFrame

\* line 162: the publish raises inside the try of the handler
ConvPublishError ==
    /\ ConvAt("publish")
    /\ sns' = Append(sns, StageMessage("Completed", event[1].user_id, FALSE))
    /\ ConvOnError("publish_error")
    /\ UNCHANGED <<tmp, s3, db, output_files>> /\ UNCHANGED convFrame

InitConv ==
    /\ fn = "conversion-process"
    /\ WalkIdle /\ RawLocalsIdle /\ WorldIdle /\ StageIdle
    /\ event \in ConvEvents
    /\ rpc = "invoked"

NextConv ==
    \/ ConvBadEvent
    \/ ConvParsed
    \/ ConvOutputFile
    \/ ConvUploadError
    \/ ConvDbError
    \/ ConvDbDone
    \/ ConvPublished
    \/ ConvPublishError

SpecConv == InitConv /\ [][NextConv]_vars

----------------------------------------------------------------------------
(* metadata_generator/lambda_handler.py: values *)

\* a dict, as the sequence of its items in insertion order
PyDict(items) == [t |-> "dict", v |-> items]
Item(key, value) == [key |-> key, value |-> value]

HasKey(d, key) == \E n \in DOMAIN d.v : d.v[n].key = key

\* d.get(key, default)
DictGet(d, key, default) ==
    IF HasKey(d, key)
    THEN d.v[CHOOSE n \in DOMAIN d.v : d.v[n].key = key].value
    ELSE default

\* d[key] = value: a key the dict has keeps its place
DictSet(d, key, value) ==
    IF HasKey(d, key)
    THEN PyDict([n \in DOMAIN d.v |->
                    IF d.v[n].key = key THEN Item(key, value) ELSE d.v[n]])
    ELSE PyDict(Append(d.v, Item(key, value)))

\* repr(x) of a str, an int, None, and of a dict of such values
RECURSIVE Repr(_)
RECURSIVE ReprItems(_)
ReprItems(items) ==
    IF items = <<>> THEN <<>>
    ELSE <<"'">> \o Head(items).key \o <<"'", ":", " ">>
           \o Repr(Head(items).value)
           \o (IF Tail(items) = <<>> THEN <<>>
               ELSE <<",", " ">> \o ReprItems(Tail(items)))
Repr(x) ==
    CASE x.t = "str"  -> <<"'">> \o x.v \o <<"'">>
      [] x.t = "int"  -> Digits(x.v)
      [] x.t = "none" -> s_None
      [] x.t = "dict" -> <<"{">> \o ReprItems(x.v) \o <<"}">>

\* str(x)
Str(x) == IF x.t = "str" THEN x.v ELSE Repr(x)

\* s.count(sub): the occurrences of sub in s that do not overlap
RECURSIVE Count(_, _)
Count(str, sub) ==
    IF Len(str) < Len(sub) THEN 0
    ELSE IF SubSeq(str, 1, Len(sub)) = sub
         THEN 1 + Count(SubSeq(str, Len(sub) + 1, Len(str)), sub)
         ELSE Count(Tail(str), sub)

s_SOPInstanceUID == <<"S","O","P","I","n","s","t","a","n","c","e","U","I","D">>
s_FileSetID      == <<"F","i","l","e","S","e","t","I","D">>
s_Modality       == <<"M","o","d","a","l","i","t","y">>
s_DirectoryRecordSequence ==
    <<"D","i","r","e","c","t","o","r","y","R","e","c","o","r","d",
      "S","e","q","u","e","n","c","e">>
s_dicom_metadata ==
    <<"d","i","c","o","m","_","m","e","t","a","d","a","t","a">>
s_count   == <<"c","o","u","n","t">>
s_types   == <<"t","y","p","e","s">>
s_STUDY   == <<"S","T","U","D","Y">>
s_SERIES  == <<"S","E","R","I","E","S">>
s_IMAGE   == <<"I","M","A","G","E">>

\* the DirectoryRecordSequence summary the rawfile stage writes (rawfile
\* lines 137-140) for one PATIENT record and two IMAGE records
DirectorySummaryIn ==
    PyDict(<<Item(s_count, PyInt(3)),
             Item(s_types, PyDict(<<Item(s_PATIENT, PyInt(1)),
                                    Item(s_IMAGE, PyInt(2))>>))>>)

Settings(dicom_metadata) ==
    PyDict(<<Item(s_dicom_metadata, PyDict(dicom_metadata))>>)

\* the settings JSON read from S3: with both identifiers, with neither, with
\* an empty SOPInstanceUID, with a DirectoryRecordSequence, and a JSON text
\* that is a list
SettingsJsons ==
    { Settings(<<Item(s_SOPInstanceUID, PyStr(s_study)),
                 Item(s_FileSetID, PyStr(<<"f","s">>)),
                 Item(s_Modality, PyStr(s_CT))>>),
      Settings(<<Item(s_Modality, PyStr(s_CT))>>),
      Settings(<<Item(s_SOPInstanceUID, PyStr(<<>>)),
                 Item(s_FileSetID, PyStr(<<"f","s">>))>>),
      Settings(<<Item(s_SOPInstanceUID, PyStr(s_study)),
                 Item(s_FileSetID, PyStr(<<"f","s">>)),
                 Item(s_DirectoryRecordSequence, DirectorySummaryIn)>>),
      PyList(<<>>) }

\* the answer of query_openai_api (lines 108-124): {} when the API call or
\* the parse of its answer raised, a dict of attributes (one of them null, one
\* longer than 1000 characters), a dict of 101 attributes, or a JSON text
\* that is a list
LongValue == [n \in 1..1001 |-> "x"]
OpenAiAnswers ==
    { PyDict(<<>>),
      PyDict(<<Item(s_Modality, PyStr(s_CT)),
               Item(<<"A","g","e">>, PyNone),
               Item(<<"N","o","t","e">>, PyStr(LongValue))>>),
      PyDict([n \in 1..101 |-> Item(<<"k">> \o Digits(n), PyInt(n))]),
      PyList(<<>>) }

----------------------------------------------------------------------------
(* metadata_generator/lambda_handler.py: lambda_handler *)

\* event['Records']: no record, a message that is not JSON, the message of
\* the rawfile stage, a message whose status is not 'Success'
MetaEvents == { <<>>, <<BadMessage>>, <<StageMsg>>, <<StageMsgFailed>> }

\* lines 323-333: the event cannot be read, or the status is not 'Success'
MetaEventRaises ==
    IF StageEventRaises THEN TRUE ELSE event[1].status # PyStr(s_Success)

\* line 254
DicomMetadataOf(json) == DictGet(json, s_dicom_metadata, PyDict(<<>>))

\* lines 254-255 and 274: .get or .keys() is called on a value that is not
\* a dict
ParseRaises(json, answer) ==
    IF json.t # "dict" THEN TRUE
    ELSE IF DicomMetadataOf(json).t # "dict" THEN TRUE
    ELSE answer.t # "dict"

\* lines 258-266
DicomData(json) ==
    LET dm == DicomMetadataOf(json)
    IN  [ sop_instance_uid |-> DictGet(dm, s_SOPInstanceUID, PyNone),
          file_path        |-> DictGet(dm, s_FileSetID, PyNone) ]

\* lines 281-294: the record types are counted in the text of the value
DirectorySummaryOut(sequence_value) ==
    LET text == Str(sequence_value)
        n(type) == Count(text, <<"'">> \o type \o <<"'">>)
    IN  PyDict(<<Item(s_count, PyInt(n(s_PATIENT) + n(s_STUDY)
                                        + n(s_SERIES) + n(s_IMAGE))),
                 Item(s_types,
                      PyDict(<<Item(s_PATIENT, PyInt(n(s_PATIENT))),
                               Item(s_STUDY, PyInt(n(s_STUDY))),
                               Item(s_SERIES, PyInt(n(s_SERIES))),
                               Item(s_IMAGE, PyInt(n(s_IMAGE)))>>))>>)

\* lines 273-294: the answer of OpenAI, with the DirectoryRecordSequence
\* summary when the settings have a non-empty one
ImportantMetadata(json, answer) ==
    LET dm == DicomMetadataOf(json)
    IN  IF HasKey(dm, s_DirectoryRecordSequence)
           /\ Truthy(DictGet(dm, s_DirectoryRecordSequence, PyNone))
        THEN DictSet(answer, s_DirectoryRecordSequence,
                     DirectorySummaryOut(
                         DictGet(dm, s_DirectoryRecordSequence, PyNone)))
        ELSE answer

\* lines 135-144: every field is str() of what dicom_data holds
ImageData(cv, dd) ==
    [ conversion_id    |-> cv,
      sop_instance_uid |-> Str(dd.sop_instance_uid),
      file_path        |-> Str(dd.file_path) ]

\* line 149
ImageDataInvalid(data) ==
    data.sop_instance_uid = <<>> \/ data.file_path = <<>>

\* lines 195-197
StrValue(value) ==
    IF Len(Str(value)) > 1000 THEN Take(Str(value), 1000) \o <<".",".",".">>
    ELSE Str(value)

\* line 192
ValueNotNone(item) == item.value # PyNone

\* lines 190-205: one record per item whose value is not None
MetadataRecords(img, items) ==
    LET kept == SelectSeq(items, ValueNotNone)
    IN  [n \in 1..Len(kept) |->
            [image_id |-> img, attribute_key |-> kept[n].key,
             attribute_value |-> StrValue(kept[n].value)]]

\* line 210
batch_size == 100

\* faulty variant: the batch holds every record from start on
Batch_Unbounded(records, start) ==
    SubSeq(records, start + 1, Len(records))

\* line 212: metadata_records[i:i + batch_size]
Batch(records, start) ==
    SubSeq(records, start + 1,
           IF start + batch_size < Len(records) THEN start + batch_size
           ELSE Len(records))

MetaAt(position) == fn = "metadata_generator" /\ rpc = position

metaFrame == <<event, rawLocals, walkVars, tmp, s3, sns, SNS_TOPIC_ARN,
               output_files, data_in, cleaned>>
metaLocals == <<json_data, dicom_data, metadata, image_id, metadata_records,
                batch_start>>

\* lines 416-425: the except clause of the handler
MetaOnError(outcome) == Returns(500, "Error occurred", outcome)

\* lines 323-333
MetaBadEvent ==
    /\ MetaAt("invoked") /\ MetaEventRaises
    /\ MetaOnError("bad_event")
    /\ UNCHANGED db /\ UNCHANGED metaLocals /\ UNCHANGED metaFrame

\* lines 339-369: the listing or the read raises, there is no .json object,
\* or its content is not JSON
MetaLoadError ==
    /\ MetaAt("invoked") /\ ~MetaEventRaises
    /\ MetaOnError("s3_error")
    /\ UNCHANGED db /\ UNCHANGED metaLocals /\ UNCHANGED metaFrame

\* lines 339-364: the first .json object of the folder is read
MetaLoaded ==
    /\ MetaAt("invoked") /\ ~MetaEventRaises
    /\ json_data' \in SettingsJsons
    /\ rpc' = "parse"
    /\ rlast' = "loaded"
    /\ UNCHANGED <<db, result, dicom_data, metadata, image_id,
                   metadata_records, batch_start>>
    /\ UNCHANGED metaFrame

\* lines 249-305 and 410-414: parse_dicom_data raises
MetaParseError ==
    /\ MetaAt("parse")
    /\ \E answer \in OpenAiAnswers : ParseRaises(json_data, answer)
    /\ MetaOnError("parse_error")
    /\ UNCHANGED db /\ UNCHANGED metaLocals /\ UNCHANGED metaFrame

\* lines 249-299 and 373
MetaParsed ==
    /\ MetaAt("parse")
    /\ \E answer \in OpenAiAnswers :
          /\ ~ParseRaises(json_data, answer)
          /\ metadata' = ImportantMetadata(json_data, answer)
    /\ dicom_data' = DicomData(json_data)
    /\ rpc' = "image"
    /\ rlast' = "parsed"
    /\ UNCHANGED <<db, result, json_data, image_id, metadata_records,
                   batch_start>>
    /\ UNCHANGED metaFrame

\* lines 149-150: a required field is empty; nothing is inserted
MetaImageInvalid ==
    /\ MetaAt("image")
    /\ ImageDataInvalid(ImageData(event[1].conversion_id, dicom_data))
    /\ MetaOnError("image_invalid")
    /\ UNCHANGED db /\ UNCHANGED metaLocals /\ UNCHANGED metaFrame

\* lines 153-173: the insert raises, or it returns no row or no image_id
\* (the row may have been stored then)
MetaImageError ==
    /\ MetaAt("image")
    /\ ~ImageDataInvalid(ImageData(event[1].conversion_id, dicom_data))
    /\ \E stored \in BOOLEAN :
          db' = IF stored
                THEN Append(db, [table |-> "dicom_images", op |-> "insert",
                                 rows |-> <<ImageData(event[1].conversion_id,
                                                      dicom_data)>>])
                ELSE db
    /\ MetaOnError("image_error")
    /\ UNCHANGED metaLocals /\ UNCHANGED metaFrame

\* lines 153-165 and 379, then lines 185-207 of insert_dicom_metadata: the
\* row is stored and gives the image_id; the records are prepared
MetaImageInserted ==
    /\ MetaAt("image")
    /\ ~ImageDataInvalid(ImageData(event[1].conversion_id, dicom_data))
    /\ db' = Append(db, [table |-> "dicom_images", op |-> "insert",
                         rows |-> <<ImageData(event[1].conversion_id,
                                              dicom_data)>>])
    /\ image_id' = PyStr(UuidHex(1))
    /\ metadata_records' = MetadataRecords(PyStr(UuidHex(1)), metadata.v)
    /\ batch_start' = 0
    /\ rpc' = "batches"
    /\ rlast' = "image_inserted"
    /\ UNCHANGED <<result, json_data, dicom_data, metadata>>
    /\ UNCHANGED metaFrame

\* lines 211-216: one batch is inserted
MetaBatchInserted ==
    /\ MetaAt("batches") /\ batch_start < Len(metadata_records)
    /\ db' = Append(db, [table |-> "dicom_metadata", op |-> "insert",
                         rows |-> Batch(metadata_records, batch_start)])
    /\ batch_start' = batch_start + batch_size
    /\ rlast' = "batch_inserted"
    /\ UNCHANGED <<rpc, result, json_data, dicom_data, metadata, image_id,
                   metadata_records>>
    /\ UNCHANGED metaFrame

\* lines 217-227 and 410-414: the insert of a batch raises
MetaBatchError ==
    /\ MetaAt("batches") /\ batch_start < Len(metadata_records)
    /\ MetaOnError("batch_error")
    /\ UNCHANGED db /\ UNCHANGED metaLocals /\ UNCHANGED metaFrame

\* lines 222 and 385-408
MetaReturn ==
    /\ MetaAt("batches") /\ batch_start >= Len(metadata_records)
    /\ Returns(200, "File processing completed successfully.", "return")
    /\ UNCHANGED db /\ UNCHANGED metaLocals /\ UNCHANGED metaFrame

InitMeta ==
    /\ fn = "metadata_generator"
    /\ WalkIdle /\ RawLocalsIdle /\ WorldIdle /\ StageIdle
    /\ event \in MetaEvents
    /\ rpc = "invoked"

NextMeta ==
    \/ MetaBadEvent
    \/ MetaLoadError
    \/ MetaLoaded
    \/ MetaParseError
    \/ MetaParsed
    \/ MetaImageInvalid
    \/ MetaImageError
    \/ MetaImageInserted
    \/ MetaBatchInserted
    \/ MetaBatchError
    \/ MetaReturn

SpecMeta == InitMeta /\ [][NextMeta]_vars

----------------------------------------------------------------------------
(* rawfile/lambda_function.py: clean_value and clean_data *)

PyBool(b)  == [t |-> "bool", v |-> b]

\* bytes, as the characters they hold; InvalidByte is a byte that is not
\* valid UTF-8
PyBytes(l) == [t |-> "bytes", v |-> l]
InvalidByte == "0xff"

\* an object of any other class: the builtin class it derives from, and its
\* attributes (str is what str() gives for it)
PyObject(base, attrs) == [t |-> "object", base |-> base, v |-> attrs]

\* isinstance(value, (int, float, str, bool, type(None)))
IsPrimitive(value) ==
    \/ value.t \in {"int", "float", "str", "bool", "none"}
    \/ value.t = "object" /\ value.base \in {"int", "float", "str"}

\* hasattr(value, name)
HasAttr(value, name) == value.t = "object" /\ name \in DOMAIN value.v

\* hasattr(value, '__iter__') and not isinstance(value, (str, bytes, dict))
IsIterable(value) == value.t \in {"multi", "list"}

\* str(value)
TextOf(value) == IF value.t = "object" THEN value.v.str ELSE Str(value)

\* value.decode('utf-8', 'ignore')
Decode(bytes) == SelectSeq(bytes, LAMBDA b : b # InvalidByte)

RECURSIVE CleanValue(_)
RECURSIVE CleanData(_)

\* faulty variant: an iterable that is not a list is returned as it is
CleanValue_KeepIterables(value) ==
    IF value.t = "bytes" THEN PyStr(Decode(value.v))
    ELSE IF value.t \in {"dict", "list"} THEN CleanData(value)
    ELSE IF HasAttr(value, "original_string")
         THEN PyStr(TextOf(value.v.original_string))
    ELSE IF HasAttr(value, "value") THEN CleanValue(value.v.value)
    ELSE IF HasAttr(value, "VR") THEN PyStr(TextOf(value))
    ELSE IF IsPrimitive(value) THEN value
    ELSE IF IsIterable(value) THEN value
    ELSE PyStr(TextOf(value))

\* lines 86-107
CleanValue(value) ==
    IF value.t = "bytes" THEN PyStr(Decode(value.v))
    ELSE IF value.t \in {"dict", "list"} THEN CleanData(value)
    ELSE IF HasAttr(value, "original_string")
         THEN PyStr(TextOf(value.v.original_string))
    ELSE IF HasAttr(value, "value") THEN CleanValue(value.v.value)
    ELSE IF HasAttr(value, "VR") THEN PyStr(TextOf(value))
    ELSE IF IsPrimitive(value) THEN value
    ELSE IF IsIterable(value)
         THEN PyList([n \in DOMAIN value.v |-> CleanValue(value.v[n])])
    ELSE PyStr(TextOf(value))

\* lines 109-116
CleanData(value) ==
    IF value.t = "dict"
    THEN PyDict([n \in DOMAIN value.v |->
                    Item(value.v[n].key, CleanValue(value.v[n].value))])
    ELSE IF value.t = "list"
    THEN PyList([n \in DOMAIN value.v |-> CleanValue(value.v[n])])
    ELSE CleanValue(value)

\* the values that are not containers: None, a str, numbers, a bool, bytes
\* with and without an invalid byte, pydicom's DSfloat and IS (numbers that
\* keep their original_string, which may be None), a PersonName, a float
\* subclass without attributes, an object that only has a VR, and an object
\* of an unrelated class
s_1_5 == <<"1",".","5">>
Atoms ==
    { PyNone, PyStr(s_CT), PyInt(7), PyFloat(15), PyBool(TRUE),
      PyBytes(<<"a", InvalidByte, "b">>), PyBytes(<<>>),
      PyObject("float", [original_string |-> PyStr(s_1_5), str |-> s_1_5]),
      PyObject("int", [original_string |-> PyNone, str |-> <<"7">>]),
      PyObject("object", [original_string |-> PyStr(s_doe), str |-> s_doe]),
      PyObject("float", [str |-> s_1_5]),
      PyObject("object", [VR |-> PyStr(<<"D","S">>), str |-> s_1_5]),
      PyObject("object", [str |-> <<"<","o",">">>]) }

\* a pydicom DataElement: it has a value and a VR
DataElement(value) ==
    PyObject("object", [value |-> value, VR |-> PyStr(<<"S","Q">>),
                        str |-> <<"<","e",">">>])

\* a value in a list, in a MultiValue (or a tuple), in a mapping, and in a
\* DataElement
Containers(values) ==
    {PyList(<<x>>) : x \in values} \cup {PyMulti(<<x, PyNone>>) : x \in values}
        \cup {PyDict(<<Item(s_Modality, x)>>) : x \in values}
        \cup {DataElement(x) : x \in values}

\* the values with containers nested up to depth
RECURSIVE CleanInputs(_)
CleanInputs(depth) ==
    IF depth = 0 THEN Atoms
    ELSE Atoms \cup Containers(CleanInputs(depth - 1))

CleanAt(position) == fn = "clean_data" /\ rpc = position

\* lines 109-116: one call of clean_data
CleanCall ==
    /\ CleanAt("called")
    /\ cleaned' = CleanData(data_in)
    /\ rpc' = "done"
    /\ UNCHANGED <<event, rawLocals, walkVars, tmp, s3, db, sns, result, rlast,
                   SNS_TOPIC_ARN, output_files, json_data, dicom_data,
                   metadata, image_id, metadata_records, batch_start, data_in>>

InitClean ==
    /\ fn = "clean_data"
    /\ WalkIdle /\ RawLocalsIdle /\ WorldIdle
    /\ event = <<>>
    /\ rpc = "called"
    /\ SNS_TOPIC_ARN = PyNone /\ output_files = <<>>
    /\ json_data = PyNone /\ dicom_data = PyNone /\ metadata = PyNone
    /\ image_id = PyNone /\ metadata_records = <<>> /\ batch_start = 0
    /\ data_in \in CleanInputs(MaxDepth)
    /\ cleaned = PyNone

NextClean == CleanCall

SpecClean == InitClean /\ [][NextClean]_vars

----------------------------------------------------------------------------
(* The four stage handlers: one invocation of any of them *)

InitStages == InitRaw \/ InitZip \/ InitConv \/ InitMeta

NextStages == NextRaw \/ NextZip \/ NextConv \/ NextMeta

SpecStages == InitStages /\ [][NextStages]_vars

----------------------------------------------------------------------------
(* Properties of the rawfile handler *)

\* the object at position i of the listing has a pixel grid of the required
\* shape (512,512)
HasRequiredShape(i) ==
    contents[i].kind = "pixels" /\ contents[i].shape = <<512, 512>>

\* the grids of required shape among the first n objects, in listing order
RECURSIVE RequiredShapeFrames(_)
RequiredShapeFrames(n) ==
    IF n = 0 THEN <<>>
    ELSE RequiredShapeFrames(n - 1) \o
         (IF HasRequiredShape(n)
          THEN <<PixelArray(event[rec], n, contents[n])>>
          ELSE <<>>)

\* C9: the frames accepted for the volume are exactly the grids of shape
\* (512,512) among the objects read so far, in listing order; an object with
\* another shape is left out and the loop goes on
C9_AcceptedFramesInListingOrder ==
    /\ [](rpc = "files" =>
            combined_pixel_data = PyList(RequiredShapeFrames(fidx - 1)))
    /\ [][(AtObject("pixels") /\ contents[fidx].shape # <<512, 512>>)
            => (rpc' = "files" /\ fidx' = fidx + 1
                  /\ combined_pixel_data' = combined_pixel_data)]_vars

\* a (512,512) grid, a (256,256) grid and another (512,512) grid were read:
\* the first and the third are the accepted frames, in that order
C9_Witness ==
    /\ rpc = "files" /\ fidx = 4
    /\ HasRequiredShape(1) /\ HasRequiredShape(3)
    /\ contents[2].kind = "pixels" /\ contents[2].shape = <<256, 256>>
    /\ Len(combined_pixel_data.v) = 2
    /\ combined_pixel_data.v[1].v.data[1].src = KeyOf(event[rec], 1, contents[1])
    /\ combined_pixel_data.v[2].v.data[1].src = KeyOf(event[rec], 3, contents[3])

\* C10: when N >= 1 frames were accepted the assembled grid has the shape
\* (N,512,512)
C10_VolumeShapeIsStacked ==
    (rpc = "write" /\ combined_pixel_data.t = "array") =>
        combined_pixel_data.v.shape =
            <<Cardinality({i \in DOMAIN contents : HasRequiredShape(i)}),
              512, 512>>

\* the number of accepted frames of the record: the grids of required shape
\* in its listing
AcceptedFrameCount == Cardinality({i \in DOMAIN contents : HasRequiredShape(i)})

\* C11: the output_dimensions written to the metadata JSON are width =
\* columns (512), height = rows (512) and depth = the number of accepted
\* frames
C11_OutputDimensionsFromGrid ==
    (rpc = "db" /\ combined_pixel_data.t = "array") =>
        s3[Len(s3)].body.output_dimensions =
            [width |-> 512, height |-> 512, depth |-> AcceptedFrameCount]

\* the objects of the listing that reach the metadata merge of line 245
Processed(i) == contents[i].kind \in {"no_pixels", "pixels"}

\* the keys of the processed files among the first n objects
MetaKeys(n) ==
    UNION {DOMAIN contents[i].meta : i \in {j \in 1..n : Processed(j)}}

\* the first processed file among the first n objects that has key k
FirstWith(k, n) ==
    CHOOSE i \in 1..n :
        /\ Processed(i) /\ k \in DOMAIN contents[i].meta
        /\ \A j \in 1..(i - 1) :
              ~(Processed(j) /\ k \in DOMAIN contents[j].meta)

\* C12: the consolidated metadata holds every key of every processed file,
\* each with the value of the first file, in listing order, that has the key
C12_MetadataFirstWriteWins ==
    rpc \in {"files", "write", "db"} =>
        /\ DOMAIN combined_metadata = MetaKeys(fidx - 1)
        /\ \A k \in DOMAIN combined_metadata :
              combined_metadata[k] =
                  contents[FirstWith(k, fidx - 1)].meta[k]

\* two files were merged that share the key Modality with different values
\* and each have a key of their own: Modality is the first file's
C12_Witness ==
    /\ rpc = "files" /\ fidx = 3
    /\ contents[1].kind = "pixels" /\ contents[1].meta = MetaA
    /\ contents[2].kind = "no_pixels" /\ contents[2].meta = MetaB
    /\ combined_metadata =
          ("Modality" :> PyStr(s_CT)) @@ ("Rows" :> PyInt(512))
              @@ ("SeriesNumber" :> PyInt(7))

\* C13: every frame placed in the volume has its samples within the signed
\* 16-bit range: [-32768, 32767] when flagged signed, [0, 32767] when not
C13_SamplesNormalized ==
    rpc = "files" =>
        \A i \in DOMAIN combined_pixel_data.v :
            LET px == combined_pixel_data.v[i].v.data[1].px
            IN  /\ px.hi <= 32767
                /\ px.lo >= (IF px.signed THEN -32768 ELSE 0)

\* C14: a file whose parse or pixel decoding raises is skipped and the loop
\* over the listing goes on to the next object
C14_ParseFailureSkipsFile ==
    [][(AtObject("unreadable") \/ AtObject("decode_error"))
          => (rpc' = "files" /\ fidx' = fidx + 1 /\ result' = PyNone)]_vars

\* C15: with zero accepted frames the handler calls send_error_notification
\* and uploads and records nothing
C15_NoFramesNotifiedNoOutput ==
    [][(rpc = "write" /\ combined_pixel_data = PyList(<<>>))
          => (Len(sns') = Len(sns) + 1 /\ s3' = s3 /\ db' = db)]_vars

\* C16: after the concatenation failed the handler calls
\* send_error_notification and uploads nothing for the batch
C16_ConcatFailureNotifiedNoOutput ==
    [][(rpc = "write" /\ combined_pixel_data = PyNone)
          => (Len(sns') = Len(sns) + 1 /\ s3' = s3 /\ db' = db
                /\ rpc' # "db")]_vars
\* one of company_id, user_id, upload_id is missing (None) or empty
LacksIdentifier(m) ==
    \E x \in {m.company_id, m.user_id, m.upload_id} :
        x = PyNone \/ x = PyStr(<<>>)

\* the calls of send_error_notification made so far with this error_type
NotificationCount(error_type) ==
    Cardinality({i \in DOMAIN sns : sns[i].error_type = error_type})

\* the handler aborted on a message that lacks an identifier
AbortedOnValidation == rpc = "done" /\ rlast = "missing_fields"

\* C17 as stated: when a message lacks an identifier, exactly one
\* VALIDATION_ERROR notification is sent, the result is 500 and the
\* invocation has made no upload and no record-store write at all
C17_ValidationAbortsBeforeAnyProcessing ==
    AbortedOnValidation =>
        /\ NotificationCount("VALIDATION_ERROR") = 1
        /\ result.statusCode = 500
        /\ s3 = <<>> /\ db = <<>>

\* C17 as amended: the record that lacks an identifier takes the handler
\* straight from the validation to its 500 result, with one VALIDATION_ERROR
\* notification and without any upload or record-store write for this record;
\* nothing is done after the result
C17_ValidationAbortsRecord ==
    /\ [](AbortedOnValidation =>
            /\ NotificationCount("VALIDATION_ERROR") = 1
            /\ result.statusCode = 500)
    /\ [][(AtRecord /\ event[rec].parses /\ LacksIdentifier(event[rec]))
            => /\ rpc' = "done" /\ result'.statusCode = 500
               /\ Len(sns') = Len(sns) + 1
               /\ sns'[Len(sns')].error_type = "VALIDATION_ERROR"
               /\ s3' = s3 /\ db' = db]_vars
    /\ [][rpc # "done"]_vars

\* the second message of the event lacks company_id; the first one was
\* processed to its end before
C17_Witness ==
    /\ AbortedOnValidation
    /\ rec = 2 /\ event[2] = MsgNoCompany
    /\ Len(s3) = 2 /\ Len(db) = 3

\* C19: a record-store write that fails is not fatal: the handler goes on to
\* the next record and has not returned an error result
C19_DbFailureNotFatal ==
    rlast = "db_error" => (rpc = "record" /\ result = PyNone)
----------------------------------------------------------------------------
(* Properties of all stage handlers *)

\* the handler has returned a result with a statusCode and a body
ReturnedResult ==
    /\ rpc = "done"
    /\ DOMAIN result = {"statusCode", "body"}
    /\ result.statusCode \in {200, 400, 500}

\* how far the invocation has come: the records, loop iterations and steps
\* behind it
Progress ==
    CASE rpc = "done" -> 1000000
      [] fn = "rawfile" ->
            rec * (MaxContents + 8)
              + (CASE rpc = "record" -> 0
                   [] rpc = "list"   -> 1
                   [] rpc = "files"  -> 2 + fidx
                   [] rpc = "write"  -> MaxContents + 5
                   [] rpc = "db"     -> MaxContents + 6
                   [] OTHER          -> 0)
      [] fn = "dicomfilehandler" ->
            (CASE rpc = "file_record"    -> 1
               [] rpc = "status_history" -> 2
               [] rpc = "notify"         -> 3
               [] OTHER                  -> 0)
      [] fn = "conversion-process" ->
            (CASE rpc = "outputs" -> 1 + Len(output_files)
               [] rpc = "publish" -> 5
               [] OTHER           -> 0)
      [] fn = "metadata_generator" ->
            (CASE rpc = "parse"   -> 1
               [] rpc = "image"   -> 2
               [] rpc = "batches" -> 3 + batch_start
               [] OTHER           -> 0)

\* the statements of a handler at which an invocation can stand before it
\* returns
Positions ==
    CASE fn = "rawfile"            -> {"record", "list", "files", "write", "db"}
      [] fn = "dicomfilehandler"   -> {"invoked", "file_record",
                                       "status_history", "notify"}
      [] fn = "conversion-process" -> {"invoked", "outputs", "publish"}
      [] fn = "metadata_generator" -> {"invoked", "parse", "image", "batches"}

\* C18: every invocation of a stage handler ends by returning a result with
\* a statusCode and a body, whatever the event holds and whichever
\* collaborator call fails, and no exception leaves the handler: an
\* invocation is either inside the handler, with no result yet, or has
\* returned the structured result; and every step brings it further, so it
\* cannot stay inside for ever
C18_HandlersAlwaysReturn ==
    /\ [](rpc = "done" => ReturnedResult)
    /\ [](rpc # "done" => (result = PyNone /\ rpc \in Positions))
    /\ [][Progress' > Progress]_vars

\* the dicomfilehandler handler returned 500 after the publish for the next
\* stage raised and the error notification about it could not be delivered
\* either
C18_Witness ==
    /\ fn = "dicomfilehandler" /\ ReturnedResult
    /\ rlast = "notify_error"
    /\ Len(sns) >= 2
    /\ \A n \in {Len(sns) - 1, Len(sns)} : ~sns[n].delivered
    /\ result.statusCode = 500

\* C20: a publish that raises is never escalated: when the message for the
\* next stage could not be delivered the handler still returns what it
\* returns when the message is delivered, the 200 result
C20_UndeliveredNeverEscalated ==
    rpc = "done" =>
        \A n \in DOMAIN sns :
            (sns[n].topic = "SNS_TOPIC_ARN" /\ ~sns[n].delivered)
                => result.statusCode = 200

\* C21: whenever a handler has returned, on success and on every failure
\* path, no local scratch copy it created remains under /tmp
C21_NoScratchCopyRemains ==
    rpc = "done" => tmp = {}

----------------------------------------------------------------------------
(* Properties of aborted and repeated runs *)

\* old is the beginning of new
IsPrefix(old, new) ==
    Len(old) <= Len(new) /\ SubSeq(new, 1, Len(old)) = old

\* the handler returned its error result while it was at record rec
Aborted == rpc = "done" /\ result.statusCode = 500

\* the destination keys of the records up to record k
OutputKeysUpTo(k) ==
    UNION {{BaseOutputKey(event[j]) \o s_raw,
            BaseOutputKey(event[j]) \o s_settings} :
           j \in {i \in DOMAIN event : i <= k /\ event[i].parses
                                        /\ ~LacksIdentifier(event[i])}}

\* C22: when the rawfile handler aborts at record k nothing is rolled back
\* and nothing further is done: every step, the aborting one included, only
\* adds to the uploads, the record-store writes and the notifications made
\* before it and never goes back to an earlier record; the aborted run has
\* uploaded nothing for a record after k; and no step follows the result
C22_AbortKeepsAndStops ==
    /\ [](Aborted =>
             \A i \in DOMAIN s3 : s3[i].key \in OutputKeysUpTo(rec))
    /\ [][/\ IsPrefix(s3, s3') /\ IsPrefix(db, db') /\ IsPrefix(sns, sns')
          /\ rec' >= rec
          /\ (rpc' = "done" /\ result'.statusCode = 500) => rec' = rec
          /\ rpc # "done"]_vars

\* the first of two records was aborted when its second upload failed: the
\* raw file it uploaded is still there and the second record was not begun
C22_Witness ==
    /\ Aborted /\ rlast = "upload_error"
    /\ rec = 1 /\ Len(event) = 2
    /\ Len(s3) = 1 /\ db = <<>>


\* the event holds the same batch twice and both runs have uploaded their
\* raw file and their metadata JSON
RanTwice ==
    /\ Len(event) = 2 /\ event[2] = event[1]
    /\ Len(s3) = 4

\* C23: a second run of the output stage on the same batch (the same
\* identifiers, the same listing in the same order) writes the keys the first
\* run wrote, and the raw bytes it writes are those of the first run
C23_RerunWritesSameVolume ==
    RanTwice =>
        /\ s3[3].key = s3[1].key /\ s3[4].key = s3[2].key
        /\ s3[3].body = s3[1].body


----------------------------------------------------------------------------
(* Properties of the metadata_generator stage *)

RecordTypes == {s_PATIENT, s_STUDY, s_SERIES, s_IMAGE}

\* how many records of this type a DirectoryRecordSequence summary reports
TypeCount(summary, type) ==
    DictGet(DictGet(summary, s_types, PyDict(<<>>)), type, PyInt(0)).v

\* parse_dicom_data has returned for settings that hold a
\* DirectoryRecordSequence summary
SummaryRederived ==
    /\ fn = "metadata_generator" /\ metadata.t = "dict"
    /\ HasKey(DicomMetadataOf(json_data), s_DirectoryRecordSequence)

\* C24: the DirectoryRecordSequence summary that parse_dicom_data derives
\* again from the settings JSON has the count and the count per record type
\* of the nested records, which are those of the summary process_dicom_metadata
\* wrote into the settings
C24_DirectorySummaryCounts ==
    SummaryRederived =>
        LET written == DictGet(DicomMetadataOf(json_data),
                               s_DirectoryRecordSequence, PyNone)
            derived == DictGet(metadata, s_DirectoryRecordSequence, PyNone)
        IN  /\ DictGet(derived, s_count, PyNone)
                  = DictGet(written, s_count, PyNone)
            /\ \A type \in RecordTypes :
                  TypeCount(derived, type) = TypeCount(written, type)


----------------------------------------------------------------------------
(* Properties of clean_data *)

\* json.dumps writes the value without a TypeError: it is a str, a number, a
\* bool, None, or a list or a mapping of such values
RECURSIVE JsonSerializable(_)
JsonSerializable(value) ==
    IF value.t \in {"list", "dict"}
    THEN \A n \in DOMAIN value.v :
            JsonSerializable(IF value.t = "dict" THEN value.v[n].value
                             ELSE value.v[n])
    ELSE IsPrimitive(value)

\* C25: whatever clean_data is given (bytes, strings, numbers, booleans,
\* None, lists, mappings, multi-valued fields, other objects, nested in each
\* other), what it returns is made of strings, numbers, booleans, None, lists
\* and mappings only, so that json.dumps needs no TypeError fallback
C25_CleanDataSerializable ==
    (CleanAt("done")) => JsonSerializable(cleaned)

\* a mapping was cleaned that holds a MultiValue with bytes in it
C25_Witness ==
    /\ CleanAt("done")
    /\ data_in = PyDict(<<Item(s_Modality,
                    PyMulti(<<PyBytes(<<"a", InvalidByte, "b">>), PyNone>>))>>)
    /\ cleaned = PyDict(<<Item(s_Modality,
                    PyList(<<PyStr(<<"a", "b">>), PyNone>>))>>)


----------------------------------------------------------------------------
(* Properties of the order of the steps of a handler *)

\* the positions of the messages published for the next stage
StageMessages == {n \in DOMAIN sns : sns[n].topic = "SNS_TOPIC_ARN"}

\* the positions of the rows written to table
RowsOf(table) == {n \in DOMAIN db : db[n].table = table}

\* a status write of the invocation returned False: its failure was notified
StatusWriteFailed ==
    \E n \in DOMAIN sns :
        sns[n].topic = "ERROR_TOPIC_ARN" /\ sns[n].error_type = "DATABASE_ERROR"

\* C26: in dicomfilehandler the 'extracted' file status, the 'extracted'
\* status-history row and the message for the next stage come only after
\* process_zip_file_streaming returned True, and in that order; when it
\* returned False none of them is produced and the result is 500; a status
\* write that returned False is notified as DATABASE_ERROR and the handler
\* goes on as after a successful write: the message for the next stage is
\* published (when its topic is configured) and, the publish having
\* returned, the result is 200
C26_ExtractedStepsInOrder ==
    fn = "dicomfilehandler" =>
        /\ (db # <<>> \/ StageMessages # {} \/ StatusWriteFailed)
              => rlast \in {"extracted", "file_record", "status_history",
                            "notified", "notify_error"}
        /\ \A n \in DOMAIN db : db[n].status = "extracted"
        /\ \A f \in RowsOf("files"), h \in RowsOf("status_history") : f < h
        /\ RowsOf("files") # {} => rpc # "file_record"
        /\ RowsOf("status_history") # {} => rpc \in {"notify", "done"}
        /\ StageMessages # {}
              => /\ rpc = "done"
                 /\ \A n \in StageMessages :
                       /\ sns[n].status = "Success"
                       /\ \A m \in DOMAIN sns \ StageMessages :
                             sns[m].error_type = "DATABASE_ERROR" => m < n
        /\ rlast = "extract_failed"
              => /\ db = <<>> /\ StageMessages = {}
                 /\ rpc = "done" /\ result.statusCode = 500
        /\ (rpc = "done" /\ StatusWriteFailed)
              => /\ Truthy(SNS_TOPIC_ARN) => StageMessages # {}
                 /\ (\A n \in StageMessages : sns[n].delivered)
                       => result.statusCode = 200

\* both status writes returned False, the message for the next stage was
\* published all the same and the handler returned 200
C26_Witness ==
    /\ fn = "dicomfilehandler" /\ rpc = "done"
    /\ db = <<>>
    /\ Len(sns) = 3
    /\ \A n \in 1..2 : /\ sns[n].topic = "ERROR_TOPIC_ARN"
                       /\ sns[n].error_type = "DATABASE_ERROR"
    /\ sns[3].topic = "SNS_TOPIC_ARN" /\ sns[3].delivered
    /\ result.statusCode = 200


\* the positions of the settings objects, the second upload of a record
SettingsUploads == {n \in DOMAIN s3 : EndsWith(s3[n].key, s_settings)}

\* C27: in rawfile the steps of a record come in a fixed order, each gated by
\* the ones before it: the three record-store writes are attempted only
\* after the raw file and the settings JSON were uploaded, the "Success"
\* message for the next stage is published only after the three writes
\* succeeded, and a record whose writes succeeded ends with that message
\* published
C27_RecordStepsInOrder ==
    fn = "rawfile" =>
        /\ Cardinality(RowsOf("files")) <= Cardinality(SettingsUploads)
        /\ Cardinality(RowsOf("status_history")) <= Cardinality(RowsOf("files"))
        /\ Cardinality(RowsOf("file_conversion"))
              <= Cardinality(RowsOf("status_history"))
        /\ Cardinality(StageMessages) <= Cardinality(RowsOf("file_conversion"))
        /\ rlast = "record_done"
              => Cardinality(StageMessages)
                    = Cardinality(RowsOf("file_conversion"))


----------------------------------------------------------------------------
(* Properties of the rows written by rawfile *)

\* C28: every file_conversion row the rawfile handler inserts carries a
\* conversion_id that no row inserted before it carries
C28_ConversionIdsDistinct ==
    fn = "rawfile" =>
        \A m, n \in RowsOf("file_conversion") : m < n => db[m].id # db[n].id


----------------------------------------------------------------------------
(* Properties of the rows written by metadata_generator *)

\* the settings JSON has no SOPInstanceUID or no FileSetID
SettingsLackUid ==
    /\ json_data.t = "dict"
    /\ DicomMetadataOf(json_data).t = "dict"
    /\ \/ ~HasKey(DicomMetadataOf(json_data), s_SOPInstanceUID)
       \/ ~HasKey(DicomMetadataOf(json_data), s_FileSetID)

\* C29: when the settings JSON lacks SOPInstanceUID or FileSetID,
\* insert_dicom_image raises before it touches the store: no dicom_images
\* row and no dicom_metadata row is inserted and the handler returns 500;
\* dicom_metadata rows are inserted only after a dicom_images insert
\* returned an image_id
C29_MissingIdentifierInsertsNothing ==
    fn = "metadata_generator" =>
        /\ SettingsLackUid
              => /\ db = <<>>
                 /\ rpc = "done" => result.statusCode = 500
        /\ \A n \in RowsOf("dicom_metadata") :
              /\ image_id # PyNone
              /\ \E m \in RowsOf("dicom_images") : m < n


\* the records of the dicom_metadata batches inserted so far, in the order
\* of their insertion
RECURSIVE InsertedRecords(_)
InsertedRecords(log) ==
    IF log = <<>> THEN <<>>
    ELSE (IF Head(log).table = "dicom_metadata" THEN Head(log).rows ELSE <<>>)
            \o InsertedRecords(Tail(log))

\* the items of the metadata that have a value
NonNullItems == SelectSeq(metadata.v, LAMBDA item : item.value.t # "none")

\* record is the one prepared for item: its key, and its value as text, cut
\* to 1000 characters and "..." when the text is longer
PreparedFrom(record, item) ==
    LET text == Str(item.value)
    IN  /\ record.image_id = image_id
        /\ record.attribute_key = item.key
        /\ IF Len(text) <= 1000 THEN record.attribute_value = text
           ELSE /\ Len(record.attribute_value) = 1003
                /\ SubSeq(record.attribute_value, 1, 1000)
                      = SubSeq(text, 1, 1000)
                /\ SubSeq(record.attribute_value, 1001, 1003)
                      = <<".", ".", ".">>

\* C30: insert_dicom_metadata prepares one record per non-null key, in key
\* order, the value as text cut to its first 1000 characters plus "..." when
\* longer, and inserts them in consecutive batches of at most 100, each
\* record in exactly one batch; the loop terminates; when the insert of a
\* batch fails the exception propagates, no later batch is attempted and
\* the batches already inserted stay
C30_MetadataInsertedInBatches ==
    /\ [](MetaAt("batches") \/ (fn = "metadata_generator" /\ image_id # PyNone)
            => /\ Len(metadata_records) = Len(NonNullItems)
               /\ \A n \in DOMAIN metadata_records :
                     PreparedFrom(metadata_records[n], NonNullItems[n])
               /\ \A n \in RowsOf("dicom_metadata") :
                     Len(db[n].rows) \in 1..100
               /\ batch_start % 100 = 0
               /\ batch_start < Len(metadata_records) + 100
               /\ InsertedRecords(db)
                     = SubSeq(metadata_records, 1,
                              IF batch_start < Len(metadata_records)
                              THEN batch_start ELSE Len(metadata_records))
               /\ rlast = "batch_error" => result.statusCode = 500)
    /\ [][MetaAt("batches")
            => /\ IsPrefix(db, db')
               /\ \/ rpc' = "batches" /\ batch_start' = batch_start + 100
                  \/ rpc' = "done" /\ db' = db]_vars

\* 101 records were prepared, the first batch of 100 was inserted and the
\* insert of the second batch raised
C30_Witness ==
    /\ fn = "metadata_generator" /\ rpc = "done" /\ rlast = "batch_error"
    /\ Len(metadata_records) = 101
    /\ Len(InsertedRecords(db)) = 100
    /\ result.statusCode = 500
====
